---- MODULE Spec2Model ----
(***************************************************************************)
(* Context retrieval and ranking engine of the strategy advisor            *)
(* (strategy-advisor/advisor.js): query analysis, town-hall filtering,     *)
(* hybrid semantic/keyword retrieval, intent boost and MMR.                *)
(*                                                                         *)
(* Representation.  A JavaScript string is a sequence of one-character     *)
(* strings, so that toLowerCase, includes, split and the regular           *)
(* expressions are computed character by character.  An optional value     *)
(* (an object key that may be absent, `undefined`) is <<>> when absent and *)
(* <<v>> when present.  A real number is a fixed-point integer in units of *)
(* 1/SimScale; embeddings are integer vectors of integral norm, for which  *)
(* the cosine is an exact multiple of 1/SimScale.                          *)
(***************************************************************************)
EXTENDS Integers, Sequences, FiniteSets, TLC

\* ------------------------------------------------------------------------
\* Optional values
\* ------------------------------------------------------------------------
Undefined == <<>>
Some(v) == <<v>>
Val(o) == o[1]

\* ------------------------------------------------------------------------
\* Strings
\* ------------------------------------------------------------------------
UpperCase == <<"A", "B", "C", "D", "E", "F", "G", "H", "I", "J", "K", "L", "M", "N", "O", "P", "Q", "R", "S", "T", "U", "V", "W", "X", "Y", "Z">>
LowerCase == <<"a", "b", "c", "d", "e", "f", "g", "h", "i", "j", "k", "l", "m", "n", "o", "p", "q", "r", "s", "t", "u", "v", "w", "x", "y", "z">>
DigitChars == <<"0", "1", "2", "3", "4", "5", "6", "7", "8", "9">>
WhiteSpace == {" ", "\t", "\n", "\r"}

Min(a, b) == IF a < b THEN a ELSE b

\* the array whose element i is f[i], for f defined on 1..n: what
\* Array.prototype.map and the per-character maps of String build
Array(f) == SubSeq(f, 1, Len(f))

\* the indices 1..arr.length of an array, in order
Indices(arr) == Array([ix \in DOMAIN arr |-> ix])

\* the lower-case letter of each upper-case letter
LowerOf ==
  ("A" :> "a") @@ ("B" :> "b") @@ ("C" :> "c") @@ ("D" :> "d") @@
  ("E" :> "e") @@ ("F" :> "f") @@ ("G" :> "g") @@ ("H" :> "h") @@
  ("I" :> "i") @@ ("J" :> "j") @@ ("K" :> "k") @@ ("L" :> "l") @@
  ("M" :> "m") @@ ("N" :> "n") @@ ("O" :> "o") @@ ("P" :> "p") @@
  ("Q" :> "q") @@ ("R" :> "r") @@ ("S" :> "s") @@ ("T" :> "t") @@
  ("U" :> "u") @@ ("V" :> "v") @@ ("W" :> "w") @@ ("X" :> "x") @@
  ("Y" :> "y") @@ ("Z" :> "z")

toLowerChar(c) == IF c \in DOMAIN LowerOf THEN LowerOf[c] ELSE c

toLowerCase(s) == Array([ix \in DOMAIN s |-> toLowerChar(s[ix])])

\* String.prototype.includes: t occurs in s as a contiguous substring
includes(s, t) ==
  \E i \in 0..(Len(s) - Len(t)) : \A j \in 1..Len(t) : s[i + j] = t[j]

IsDigit(c) == \E i \in 1..Len(DigitChars) : DigitChars[i] = c

\* parseInt(d, 10) of a non-empty run of decimal digits
RECURSIVE parseInt(_)
parseInt(d) ==
  LET DigitVal(c) == (CHOOSE i \in 1..Len(DigitChars) : DigitChars[i] = c) - 1
  IN IF Len(d) = 0 THEN 0
     ELSE 10 * parseInt(SubSeq(d, 1, Len(d) - 1)) + DigitVal(d[Len(d)])

\* the decimal text a template literal `${n}` produces for an integer
RECURSIVE numToString(_)
numToString(n) ==
  IF n < 0 THEN <<"-">> \o numToString(0 - n)
  ELSE IF n < 10 THEN <<DigitChars[n + 1]>>
  ELSE numToString(n \div 10) \o <<DigitChars[(n % 10) + 1]>>

\* ------------------------------------------------------------------------
\* The regular expression /th\s*(\d+)|town\s*hall\s*(\d+)/i
\* ------------------------------------------------------------------------
\* literal lit matches s at position i, ignoring case (flag i)
LitAt(s, i, lit) ==
  /\ i + Len(lit) - 1 <= Len(s)
  /\ \A j \in 1..Len(lit) : toLowerChar(s[i + j - 1]) = lit[j]

\* \s* is greedy: first position at or after i that holds no white space
SkipSpaces(s, i) ==
  CHOOSE j \in i..(Len(s) + 1) :
    /\ \A k \in i..(j - 1) : s[k] \in WhiteSpace
    /\ (j = Len(s) + 1 \/ s[j] \notin WhiteSpace)

\* \d+ is greedy: first position at or after i that holds no digit
SkipDigits(s, i) ==
  CHOOSE j \in i..(Len(s) + 1) :
    /\ \A k \in i..(j - 1) : IsDigit(s[k])
    /\ (j = Len(s) + 1 \/ ~IsDigit(s[j]))

\* th\s*(\d+) at position i: the captured digits, or <<>> for no match
ThAltAt(s, i) ==
  IF LitAt(s, i, <<"t", "h">>)
  THEN LET d == SkipSpaces(s, i + 2) IN SubSeq(s, d, SkipDigits(s, d) - 1)
  ELSE <<>>

\* town\s*hall\s*(\d+) at position i: the captured digits, or <<>>
TownHallAltAt(s, i) ==
  IF LitAt(s, i, <<"t", "o", "w", "n">>)
  THEN LET h == SkipSpaces(s, i + 4) IN
       IF LitAt(s, h, <<"h", "a", "l", "l">>)
       THEN LET d == SkipSpaces(s, h + 4) IN SubSeq(s, d, SkipDigits(s, d) - 1)
       ELSE <<>>
  ELSE <<>>

\* the capture of one alternative at position i: thMatch[1] || thMatch[2],
\* an unmatched group (<<>>) being falsy
ThCaptureAt(s, i) ==
  IF ThAltAt(s, i) # <<>> THEN ThAltAt(s, i) ELSE TownHallAltAt(s, i)

\* the capture of the leftmost of the matches starting at starts; Undefined
\* when there is none (null)
LeftmostCapture(s, starts) ==
  IF starts = {} THEN Undefined
  ELSE Some(ThCaptureAt(s, CHOOSE i \in starts : \A k \in starts : i <= k))

\* String.prototype.match: the leftmost match; Undefined when none (null)
thMatch(s) == LeftmostCapture(s, {i \in 1..Len(s) : ThCaptureAt(s, i) # <<>>})

\* ------------------------------------------------------------------------
\* analyzeQuery
\* ------------------------------------------------------------------------
Intents == {"general", "upgrade_priority", "attack_strategy", "base_design",
            "resource_management"}

UpgradeRule(lowerQuery) ==
  \/ includes(lowerQuery, <<"u", "p", "g", "r", "a", "d", "e">>)
  \/ includes(lowerQuery, <<"p", "r", "i", "o", "r", "i", "t", "y">>)
  \/ includes(lowerQuery, <<"w", "h", "a", "t", " ", "s", "h", "o", "u", "l", "d", " ", "i", " ", "u", "p", "g", "r", "a", "d", "e">>)
  \/ includes(lowerQuery, <<"u", "p", "g", "r", "a", "d", "e", " ", "f", "i", "r", "s", "t">>)
  \/ includes(lowerQuery, <<"u", "p", "g", "r", "a", "d", "e", " ", "n", "e", "x", "t">>)
  \/ includes(lowerQuery, <<"w", "h", "a", "t", " ", "t", "o", " ", "u", "p", "g", "r", "a", "d", "e">>)
  \/ (includes(lowerQuery, <<"m", "a", "x">>) /\ includes(lowerQuery, <<"f", "i", "r", "s", "t">>))
  \/ (includes(lowerQuery, <<"f", "o", "c", "u", "s">>) /\ includes(lowerQuery, <<"u", "p", "g", "r", "a", "d", "e">>))

AttackRule(lowerQuery) ==
  \/ includes(lowerQuery, <<"a", "t", "t", "a", "c", "k">>)
  \/ includes(lowerQuery, <<"s", "t", "r", "a", "t", "e", "g", "y">>)
  \/ includes(lowerQuery, <<"a", "r", "m", "y">>)
  \/ includes(lowerQuery, <<"r", "a", "i", "d">>)
  \/ includes(lowerQuery, <<"w", "a", "r", " ", "a", "t", "t", "a", "c", "k">>)
  \/ includes(lowerQuery, <<"a", "t", "t", "a", "c", "k", " ", "p", "l", "a", "n">>)
  \/ includes(lowerQuery, <<"c", "o", "m", "p", "o", "s", "i", "t", "i", "o", "n">>)
  \/ includes(lowerQuery, <<"h", "o", "w", " ", "t", "o", " ", "b", "e", "a", "t">>)
  \/ includes(lowerQuery, <<"h", "o", "w", " ", "t", "o", " ", "a", "t", "t", "a", "c", "k">>)
  \/ includes(lowerQuery, <<"b", "e", "s", "t", " ", "t", "r", "o", "o", "p", "s", " ", "f", "o", "r">>)
  \/ includes(lowerQuery, <<"t", "r", "o", "o", "p", " ", "c", "o", "m", "p">>)

BaseRule(lowerQuery) ==
  \/ includes(lowerQuery, <<"b", "a", "s", "e">>)
  \/ includes(lowerQuery, <<"l", "a", "y", "o", "u", "t">>)
  \/ includes(lowerQuery, <<"d", "e", "s", "i", "g", "n">>)
  \/ includes(lowerQuery, <<"v", "i", "l", "l", "a", "g", "e", " ", "l", "a", "y", "o", "u", "t">>)
  \/ includes(lowerQuery, <<"b", "a", "s", "e", " ", "p", "l", "a", "n">>)
  \/ includes(lowerQuery, <<"d", "e", "f", "e", "n", "s", "e", " ", "l", "a", "y", "o", "u", "t">>)
  \/ includes(lowerQuery, <<"b", "a", "s", "e", " ", "d", "e", "s", "i", "g", "n">>)
  \/ includes(lowerQuery, <<"v", "i", "l", "l", "a", "g", "e", " ", "s", "e", "t", "u", "p">>)
  \/ includes(lowerQuery, <<"h", "o", "w", " ", "t", "o", " ", "b", "u", "i", "l", "d">>)
  \/ (includes(lowerQuery, <<"a", "r", "r", "a", "n", "g", "e">>) /\ includes(lowerQuery, <<"d", "e", "f", "e", "n", "s", "e">>))
  \/ (includes(lowerQuery, <<"p", "l", "a", "c", "e">>) /\ includes(lowerQuery, <<"b", "u", "i", "l", "d", "i", "n", "g">>))

ResourceRule(lowerQuery) ==
  \/ includes(lowerQuery, <<"r", "e", "s", "o", "u", "r", "c", "e">>)
  \/ includes(lowerQuery, <<"g", "o", "l", "d">>)
  \/ includes(lowerQuery, <<"e", "l", "i", "x", "i", "r">>)
  \/ includes(lowerQuery, <<"d", "a", "r", "k", " ", "e", "l", "i", "x", "i", "r">>)
  \/ includes(lowerQuery, <<"s", "a", "v", "e">>)
  \/ includes(lowerQuery, <<"s", "p", "e", "n", "d">>)
  \/ includes(lowerQuery, <<"e", "c", "o", "n", "o", "m", "y">>)
  \/ includes(lowerQuery, <<"f", "a", "r", "m">>)
  \/ includes(lowerQuery, <<"l", "o", "o", "t">>)
  \/ includes(lowerQuery, <<"b", "e", "s", "t", " ", "w", "a", "y", " ", "t", "o", " ", "g", "e", "t">>)
  \/ includes(lowerQuery, <<"h", "o", "w", " ", "t", "o", " ", "g", "e", "t", " ", "m", "o", "r", "e">>)

troops ==
  << <<"b", "a", "r", "b", "a", "r", "i", "a", "n">>, <<"a", "r", "c", "h", "e", "r">>, <<"g", "i", "a", "n", "t">>, <<"g", "o", "b", "l", "i", "n">>, <<"w", "a", "l", "l", " ", "b", "r", "e", "a", "k", "e", "r">>,
     <<"b", "a", "l", "l", "o", "o", "n">>, <<"w", "i", "z", "a", "r", "d">>, <<"h", "e", "a", "l", "e", "r">>, <<"d", "r", "a", "g", "o", "n">>, <<"p", "e", "k", "k", "a">>, <<"b", "a", "b", "y", " ", "d", "r", "a", "g", "o", "n">>,
     <<"m", "i", "n", "e", "r">>, <<"e", "l", "e", "c", "t", "r", "o", " ", "d", "r", "a", "g", "o", "n">>, <<"y", "e", "t", "i">>, <<"d", "r", "a", "g", "o", "n", " ", "r", "i", "d", "e", "r">>, <<"h", "o", "g", " ", "r", "i", "d", "e", "r">>,
     <<"v", "a", "l", "k", "y", "r", "i", "e">>, <<"g", "o", "l", "e", "m">>, <<"w", "i", "t", "c", "h">>, <<"l", "a", "v", "a", " ", "h", "o", "u", "n", "d">>, <<"b", "o", "w", "l", "e", "r">>, <<"i", "c", "e", " ", "g", "o", "l", "e", "m">>,
     <<"h", "e", "a", "d", "h", "u", "n", "t", "e", "r">> >>

\* for (const troop of troops) if (lowerQuery.includes(troop)) {...; break}
FocusTroop(lowerQuery) ==
  IF \E i \in 1..Len(troops) : includes(lowerQuery, troops[i])
  THEN Some(troops[CHOOSE i \in 1..Len(troops) :
                     /\ includes(lowerQuery, troops[i])
                     /\ \A k \in 1..(i - 1) : ~includes(lowerQuery, troops[k])])
  ELSE Undefined

UpgradeItemType(lowerQuery) ==
  IF includes(lowerQuery, <<"t", "r", "o", "o", "p">>) \/ includes(lowerQuery, <<"a", "r", "m", "y">>)
  THEN Some(<<"t", "r", "o", "o", "p">>)
  ELSE IF includes(lowerQuery, <<"s", "p", "e", "l", "l">>) THEN Some(<<"s", "p", "e", "l", "l">>)
  ELSE IF includes(lowerQuery, <<"h", "e", "r", "o">>) THEN Some(<<"h", "e", "r", "o">>)
  ELSE IF \/ includes(lowerQuery, <<"d", "e", "f", "e", "n", "s", "e">>)
          \/ includes(lowerQuery, <<"b", "u", "i", "l", "d", "i", "n", "g">>)
          \/ includes(lowerQuery, <<"s", "t", "r", "u", "c", "t", "u", "r", "e">>)
          \/ includes(lowerQuery, <<"t", "o", "w", "e", "r">>)
          \/ includes(lowerQuery, <<"c", "a", "n", "n", "o", "n">>)
          \/ includes(lowerQuery, <<"m", "o", "r", "t", "a", "r">>)
  THEN Some(<<"d", "e", "f", "e", "n", "s", "e">>)
  ELSE Undefined

UpgradeFocus(lowerQuery) ==
  IF \/ includes(lowerQuery, <<"o", "f", "f", "e", "n", "s", "e">>)
     \/ includes(lowerQuery, <<"a", "t", "t", "a", "c", "k">>)
     \/ includes(lowerQuery, <<"t", "r", "o", "o", "p">>)
     \/ includes(lowerQuery, <<"s", "p", "e", "l", "l">>)
     \/ includes(lowerQuery, <<"a", "r", "m", "y">>)
  THEN Some("offense")
  ELSE IF \/ includes(lowerQuery, <<"d", "e", "f", "e", "n", "s", "e">>)
          \/ includes(lowerQuery, <<"d", "e", "f", "e", "n", "d">>)
          \/ includes(lowerQuery, <<"w", "a", "l", "l">>)
          \/ includes(lowerQuery, <<"p", "r", "o", "t", "e", "c", "t">>)
  THEN Some("defense")
  ELSE Undefined

AttackType(lowerQuery) ==
  IF \/ includes(lowerQuery, <<"a", "i", "r">>)
     \/ includes(lowerQuery, <<"d", "r", "a", "g", "o", "n">>)
     \/ includes(lowerQuery, <<"b", "a", "l", "l", "o", "o", "n">>)
     \/ includes(lowerQuery, <<"h", "o", "u", "n", "d">>)
  THEN Some("air")
  ELSE IF \/ includes(lowerQuery, <<"g", "r", "o", "u", "n", "d">>)
          \/ includes(lowerQuery, <<"h", "o", "g">>)
          \/ includes(lowerQuery, <<"g", "i", "a", "n", "t">>)
          \/ includes(lowerQuery, <<"g", "o", "l", "e", "m">>)
          \/ includes(lowerQuery, <<"p", "e", "k", "k", "a">>)
          \/ includes(lowerQuery, <<"b", "a", "r", "b", "a", "r", "i", "a", "n">>)
          \/ includes(lowerQuery, <<"a", "r", "c", "h", "e", "r">>)
  THEN Some("ground")
  ELSE Undefined

\* shared by params.purpose (attack) and the first branches of params.baseType
Purpose(lowerQuery) ==
  IF includes(lowerQuery, <<"f", "a", "r", "m">>) \/ includes(lowerQuery, <<"l", "o", "o", "t">>)
  THEN Some("farming")
  ELSE IF includes(lowerQuery, <<"w", "a", "r">>) \/ includes(lowerQuery, <<"c", "l", "a", "n", " ", "w", "a", "r">>)
  THEN Some("war")
  ELSE IF includes(lowerQuery, <<"t", "r", "o", "p", "h", "y">>) \/ includes(lowerQuery, <<"p", "u", "s", "h">>)
  THEN Some("trophy")
  ELSE Undefined

BaseType(lowerQuery) ==
  IF Purpose(lowerQuery) # Undefined THEN Purpose(lowerQuery)
  ELSE IF includes(lowerQuery, <<"h", "y", "b", "r", "i", "d">>) THEN Some("hybrid")
  ELSE Undefined

ResourceType(lowerQuery) ==
  IF includes(lowerQuery, <<"g", "o", "l", "d">>) THEN Some("gold")
  ELSE IF includes(lowerQuery, <<"e", "l", "i", "x", "i", "r">>) /\ includes(lowerQuery, <<"d", "a", "r", "k">>)
  THEN Some("dark_elixir")
  ELSE IF includes(lowerQuery, <<"e", "l", "i", "x", "i", "r">>) THEN Some("elixir")
  ELSE IF includes(lowerQuery, <<"g", "e", "m">>) THEN Some("gems")
  ELSE Undefined

\* Goal with the goal of the second branch as the default
GoalOrFarming(lowerQuery) ==
  IF includes(lowerQuery, <<"s", "a", "v", "e">>) \/ includes(lowerQuery, <<"s", "t", "o", "r", "e">>)
  THEN Some("saving")
  ELSE IF includes(lowerQuery, <<"s", "p", "e", "n", "d">>) \/ includes(lowerQuery, <<"u", "s", "e">>)
  THEN Some("spending")
  ELSE Some("farming")

Goal(lowerQuery) ==
  IF includes(lowerQuery, <<"s", "a", "v", "e">>) \/ includes(lowerQuery, <<"s", "t", "o", "r", "e">>)
  THEN Some("saving")
  ELSE IF \/ includes(lowerQuery, <<"f", "a", "r", "m">>)
          \/ includes(lowerQuery, <<"c", "o", "l", "l", "e", "c", "t">>)
          \/ includes(lowerQuery, <<"g", "e", "t">>)
  THEN Some("farming")
  ELSE IF includes(lowerQuery, <<"s", "p", "e", "n", "d">>) \/ includes(lowerQuery, <<"u", "s", "e">>)
  THEN Some("spending")
  ELSE Undefined

\* params.townHallLevel:
\* if (thMatch) parseInt(thMatch[1] || thMatch[2], 10)
TownHallParam(lowerQuery) ==
  IF thMatch(lowerQuery) # Undefined
  THEN Some(parseInt(Val(thMatch(lowerQuery))))
  ELSE Undefined

\* ClassifyIntent with the attack-strategy test moved in front
ClassifyIntentAttackFirst(lowerQuery) ==
  IF AttackRule(lowerQuery) THEN "attack_strategy"
  ELSE IF UpgradeRule(lowerQuery) THEN "upgrade_priority"
  ELSE IF BaseRule(lowerQuery) THEN "base_design"
  ELSE IF ResourceRule(lowerQuery) THEN "resource_management"
  ELSE "general"

\* the if / else-if cascade that fixes the intent
ClassifyIntent(lowerQuery) ==
  IF UpgradeRule(lowerQuery) THEN "upgrade_priority"
  ELSE IF AttackRule(lowerQuery) THEN "attack_strategy"
  ELSE IF BaseRule(lowerQuery) THEN "base_design"
  ELSE IF ResourceRule(lowerQuery) THEN "resource_management"
  ELSE "general"

\* the parameters the branch of the intent adds to params
IntentParams(intent, lowerQuery, params) ==
  CASE intent = "upgrade_priority" ->
         [params EXCEPT !.itemType = UpgradeItemType(lowerQuery),
                        !.focus = UpgradeFocus(lowerQuery)]
    [] intent = "attack_strategy" ->
         [params EXCEPT !.attackType = AttackType(lowerQuery),
                        !.focusTroop = FocusTroop(lowerQuery),
                        !.purpose = Purpose(lowerQuery)]
    [] intent = "base_design" ->
         [params EXCEPT !.baseType = BaseType(lowerQuery)]
    [] intent = "resource_management" ->
         [params EXCEPT !.resourceType = ResourceType(lowerQuery),
                        !.goal = Goal(lowerQuery)]
    [] OTHER -> params

\* the analysis of a lower-cased query, its intent being known
\* (const params = {}: every key absent)
AnalysisOf(intent, lowerQuery) ==
  LET NoParams ==
        [townHallLevel |-> Undefined, targetTH |-> Undefined,
         itemType |-> Undefined, focus |-> Undefined,
         attackType |-> Undefined, focusTroop |-> Undefined,
         purpose |-> Undefined, baseType |-> Undefined,
         resourceType |-> Undefined, goal |-> Undefined]
  IN [intent |-> intent,
      params |-> IntentParams(intent, lowerQuery,
                   [NoParams EXCEPT !.townHallLevel = TownHallParam(lowerQuery)])]

analyzeQuery(query) ==
  LET lowerQuery == toLowerCase(query)
  IN AnalysisOf(ClassifyIntent(lowerQuery), lowerQuery)

\* ------------------------------------------------------------------------
\* Numbers, vectors and cosineSimilarity
\* ------------------------------------------------------------------------
\* similarities are integers in units of 1/SimScale
SimScale == 100

RECURSIVE SumTo(_, _)
SumTo(f, n) == IF n = 0 THEN 0 ELSE SumTo(f, n - 1) + f[n]

\* Math.sqrt on the square of an integer
Sqrt(n) == CHOOSE r \in 0..n : r * r = n

\* for (i = 0; i < n; i++) sum += vecA[i] * vecB[i]
RECURSIVE SumProducts(_, _, _)
SumProducts(vecA, vecB, n) ==
  IF n = 0 THEN 0 ELSE SumProducts(vecA, vecB, n - 1) + vecA[n] * vecB[n]

\* cosineSimilarity testing the magnitude of vecA only: a zero vecB gives
\* the quotient 0 / 0, which is NaN and compares greater than nothing; NaN
\* is written as the least value below every similarity
cosineSimilarityUnguardedB(vecA, vecB) ==
  LET dotProduct == SumProducts(vecA, vecB, Len(vecA))
      magA == Sqrt(SumProducts(vecA, vecA, Len(vecA)))
      magB == Sqrt(SumProducts(vecB, vecB, Len(vecA)))
  IN IF magA = 0 THEN 0
     ELSE IF magB = 0 THEN -(SimScale + 1)
     ELSE (dotProduct * SimScale) \div (magA * magB)

cosineSimilarity(vecA, vecB) ==
  LET dotProduct == SumProducts(vecA, vecB, Len(vecA))
      magA == Sqrt(SumProducts(vecA, vecA, Len(vecA)))
      magB == Sqrt(SumProducts(vecB, vecB, Len(vecA)))
  IN IF magA = 0 \/ magB = 0 THEN 0
     ELSE (dotProduct * SimScale) \div (magA * magB)

\* ------------------------------------------------------------------------
\* Arrays
\* ------------------------------------------------------------------------
\* Array.prototype.slice(0, k)
Slice(arr, k) == SubSeq(arr, 1, Min(k, Len(arr)))

\* Array.prototype.sort((a, b) => key(b) - key(a)), keys[i] being the key of
\* arr[i]: stable, descending
SortDescBy(arr, keys) ==
  LET n == Len(arr)
      Rank(i) == 1 + Cardinality({j \in 1..n : keys[j] > keys[i]})
                   + Cardinality({j \in 1..(i - 1) : keys[j] = keys[i]})
      ranks == Array([ix \in DOMAIN arr |-> Rank(ix)])
      AtRank(p) == arr[CHOOSE i \in 1..n : ranks[i] = p]
  IN Array([ix \in DOMAIN arr |-> AtRank(ix)])

\* Array.prototype.includes
Contains(arr, x) == \E i \in 1..Len(arr) : arr[i] = x

\* arr.splice(i, 1)
RemoveAt(arr, i) == SubSeq(arr, 1, i - 1) \o SubSeq(arr, i + 1, Len(arr))

\* ------------------------------------------------------------------------
\* extractKeywords
\* ------------------------------------------------------------------------
\* \w of the regular expression /[^\w\s]/g
IsWordChar(c) ==
  \/ \E i \in 1..Len(LowerCase) : LowerCase[i] = c \/ UpperCase[i] = c
  \/ IsDigit(c)
  \/ c = "_"

\* replace(/[^\w\s]/g, '')
StripPunctuation(s) ==
  LET Keep(c) == IsWordChar(c) \/ c \in WhiteSpace IN SelectSeq(s, Keep)

\* split(/\s+/)
RECURSIVE SplitWhiteSpace(_)
SplitWhiteSpace(s) ==
  IF \A k \in 1..Len(s) : s[k] \notin WhiteSpace THEN <<s>>
  ELSE LET i == CHOOSE k \in 1..Len(s) :
                  /\ s[k] \in WhiteSpace
                  /\ \A m \in 1..(k - 1) : s[m] \notin WhiteSpace
           j == SkipSpaces(s, i)
       IN <<SubSeq(s, 1, i - 1)>> \o SplitWhiteSpace(SubSeq(s, j, Len(s)))

stopwords ==
  { <<"a">>, <<"a", "b", "o", "u", "t">>, <<"a", "n">>, <<"a", "n", "d">>, <<"a", "r", "e">>, <<"a", "s">>, <<"a", "t">>, <<"b", "e">>, <<"b", "y">>, <<"f", "o", "r">>,
    <<"f", "r", "o", "m">>, <<"h", "o", "w">>, <<"i">>, <<"i", "n">>, <<"i", "s">>, <<"i", "t">>, <<"o", "f">>, <<"o", "n">>, <<"o", "r">>, <<"t", "h", "a", "t">>,
    <<"t", "h", "e">>, <<"t", "h", "i", "s">>, <<"t", "o">>, <<"w", "a", "s">>, <<"w", "h", "a", "t">>, <<"w", "h", "e", "n">>, <<"w", "h", "e", "r", "e">>, <<"w", "h", "o">>,
    <<"w", "i", "l", "l">>, <<"w", "i", "t", "h">>, <<"c", "a", "n">>, <<"y", "o", "u">>, <<"m", "e">>, <<"m", "y">>, <<"s", "h", "o", "u", "l", "d">>, <<"w", "o", "u", "l", "d">>,
    <<"c", "o", "u", "l", "d">>, <<"n", "e", "e", "d">>, <<"r", "e", "g", "a", "r", "d", "i", "n", "g">>, <<"t", "e", "l", "l">> }

cocTerms == << <<"t", "h">>, <<"w", "a", "r">>, <<"c", "o", "c">> >>

\* for (const term of cocTerms) if (cleaned.includes(term) &&
\*                                  !keywords.includes(term)) push
RECURSIVE AddCocTerms(_, _, _)
AddCocTerms(keywords, cleanedQuery, i) ==
  IF i > Len(cocTerms) THEN keywords
  ELSE AddCocTerms(
         IF includes(cleanedQuery, cocTerms[i]) /\ ~Contains(keywords, cocTerms[i])
         THEN Append(keywords, cocTerms[i]) ELSE keywords,
         cleanedQuery, i + 1)

\* the town hall keywords: thLevel = thMatch[1] || thMatch[2] is tested
\* against the keywords, and `th${thLevel}`, `townhall${thLevel}` are pushed
AddThKeywords(keywords, m) ==
  IF m # Undefined /\ ~Contains(keywords, Val(m))
  THEN keywords \o << <<"t", "h">> \o Val(m), <<"t", "o", "w", "n", "h", "a", "l", "l">> \o Val(m) >>
  ELSE keywords

\* FilterWords keeping the words of 2 characters as well
FilterWordsShort(words) ==
  LET IsKeyword(word) == Len(word) > 1 /\ word \notin stopwords
  IN SelectSeq(words, IsKeyword)

\* the words of the cleaned query that are long enough and no stopword
FilterWords(words) ==
  LET IsKeyword(word) == Len(word) > 2 /\ word \notin stopwords
  IN SelectSeq(words, IsKeyword)

\* the keywords of a cleaned query, before the town hall keywords
CleanKeywords(cleanedQuery) ==
  AddCocTerms(FilterWords(SplitWhiteSpace(cleanedQuery)), cleanedQuery, 1)

extractKeywords(query) ==
  AddThKeywords(CleanKeywords(StripPunctuation(toLowerCase(query))),
                thMatch(query))

\* ------------------------------------------------------------------------
\* Documents.  A document is a record
\*   [metadata |-> [id, category, name, type], content, embedding,
\*    similarity, keywordScore]
\* whose similarity and keywordScore are optional (absent in a loaded corpus).
\* ------------------------------------------------------------------------
SameKey(a, b) ==
  a.metadata.id = b.metadata.id /\ a.metadata.category = b.metadata.category

\* PushNew without the isIncluded test
PushNewAlways(acc, more) == acc \o more

\* for (const match of more) if (!isIncluded) acc.push(match), isIncluded
\* being combined.some(doc => same id and same category as match)
RECURSIVE PushNew(_, _)
PushNew(acc, more) ==
  IF Len(more) = 0 THEN acc
  ELSE PushNew(IF \E i \in 1..Len(acc) : SameKey(acc[i], Head(more)) THEN acc
               ELSE Append(acc, Head(more)),
               Tail(more))

SimilarityOf(doc) == Val(doc.similarity)
KeywordScoreOf(doc) == Val(doc.keywordScore)
Similarities(arr) == Array([ix \in DOMAIN arr |-> SimilarityOf(arr[ix])])
KeywordScores(arr) == Array([ix \in DOMAIN arr |-> KeywordScoreOf(arr[ix])])

\* if (doc.similarity === undefined) doc.similarity = cosineSimilarity(...)
EnsureSimilarity(doc, queryEmbedding) ==
  IF doc.similarity = Undefined
  THEN [doc EXCEPT !.similarity = Some(cosineSimilarity(queryEmbedding, doc.embedding))]
  ELSE doc

\* ------------------------------------------------------------------------
\* findKeywordMatches, findSimilarDocuments
\* ------------------------------------------------------------------------
KeywordScore(doc, keywords) ==
  LET content == toLowerCase(doc.content)
      name == toLowerCase(doc.metadata.name)
      type == toLowerCase(doc.metadata.type)
      points(keyword) ==
        LET lowerKeyword == toLowerCase(keyword) IN
        (IF includes(content, lowerKeyword) THEN 1 ELSE 0)
        + (IF doc.metadata.name # <<>> /\ includes(name, lowerKeyword)
           THEN 2 ELSE 0)
        + (IF doc.metadata.type # <<>> /\ type = lowerKeyword
           THEN 3 ELSE 0)
  IN SumTo(Array([ix \in DOMAIN keywords |-> points(keywords[ix])]), Len(keywords))

\* findKeywordMatches keeping the documents that score 0
FindKeywordMatchesAll(keywords, embeddings, topK) ==
  LET Scored(doc) ==
        [doc EXCEPT !.keywordScore = Some(KeywordScore(doc, keywords))]
      keywordScores == Array([ix \in DOMAIN embeddings |-> Scored(embeddings[ix])])
  IN Slice(SortDescBy(keywordScores, KeywordScores(keywordScores)), topK)

findKeywordMatches(keywords, embeddings, topK) ==
  LET Scored(doc) ==
        [doc EXCEPT !.keywordScore = Some(KeywordScore(doc, keywords))]
      keywordScores == Array([ix \in DOMAIN embeddings |-> Scored(embeddings[ix])])
      HasMatch(doc) == KeywordScoreOf(doc) > 0
      matches == SelectSeq(keywordScores, HasMatch)
  IN Slice(SortDescBy(matches, KeywordScores(matches)), topK)

findSimilarDocuments(queryEmbedding, embeddings, topK) ==
  LET Scored(doc) ==
        [doc EXCEPT
           !.similarity = Some(cosineSimilarity(queryEmbedding, doc.embedding))]
      similarities == Array([ix \in DOMAIN embeddings |-> Scored(embeddings[ix])])
  IN Slice(SortDescBy(similarities, Similarities(similarities)), topK)

\* ------------------------------------------------------------------------
\* applyMMR.  lambda is given in units of 1/LambdaScale.
\* ------------------------------------------------------------------------
LambdaScale == 10

\* let max = 0; for (s of selected) max = Math.max(max, cosine(doc, s))
MaxSimilarityToSelected(doc, selected) ==
  LET sims == {0} \cup {cosineSimilarity(doc.embedding, selected[k].embedding) :
                          k \in 1..Len(selected)}
  IN CHOOSE m \in sims : \A x \in sims : x <= m

\* MmrScore with the two weights exchanged
MmrScoreSwapped(doc, selected, lambda) ==
  (LambdaScale - lambda) * SimilarityOf(doc)
    - lambda * MaxSimilarityToSelected(doc, selected)

\* lambda * doc.similarity - (1 - lambda) * maxSimilarityToSelected
MmrScore(doc, selected, lambda) ==
  lambda * SimilarityOf(doc)
    - (LambdaScale - lambda) * MaxSimilarityToSelected(doc, selected)

\* the index the inner loop leaves in bestIndex: first maximum of the score
BestIndex(remaining, selected, lambda) ==
  LET Score(doc) == MmrScore(doc, selected, lambda)
      mmrScores == Array([ix \in DOMAIN remaining |-> Score(remaining[ix])])
  IN CHOOSE i \in 1..Len(remaining) :
       /\ \A k \in 1..Len(remaining) : mmrScores[k] <= mmrScores[i]
       /\ \A k \in 1..(i - 1) : mmrScores[k] < mmrScores[i]

\* MmrLoop running while selected.length <= topK
RECURSIVE MmrLoopOneMore(_, _, _, _)
MmrLoopOneMore(selected, remaining, topK, lambda) ==
  IF Len(selected) <= topK /\ Len(remaining) > 0
  THEN LET bestIndex == BestIndex(remaining, selected, lambda)
       IN MmrLoopOneMore(Append(selected, remaining[bestIndex]),
                         RemoveAt(remaining, bestIndex), topK, lambda)
  ELSE selected

\* while (selected.length < topK && remaining.length > 0)
RECURSIVE MmrLoop(_, _, _, _)
MmrLoop(selected, remaining, topK, lambda) ==
  IF Len(selected) < topK /\ Len(remaining) > 0
  THEN LET bestIndex == BestIndex(remaining, selected, lambda)
       IN MmrLoop(Append(selected, remaining[bestIndex]),
                  RemoveAt(remaining, bestIndex), topK, lambda)
  ELSE selected

applyMMR(candidates, queryEmbedding, topK, lambda) ==
  IF Len(candidates) <= topK THEN candidates
  ELSE LET sorted == SortDescBy(candidates, Similarities(candidates))
       IN MmrLoop(<<sorted[1]>>, Tail(sorted), topK, lambda)

\* ------------------------------------------------------------------------
\* filterByTownHallLevel.  The filter returns references to the documents
\* of the array it is given: FilterRefs computes the indices of the
\* returned documents, filterByTownHallLevel the documents themselves.
\* ------------------------------------------------------------------------
MinTierMatches == 5

\* JavaScript truthiness of an optional number / of an optional string
TruthyNumber(o) == o # Undefined /\ Val(o) # 0
TruthyString(o) == o # Undefined /\ Val(o) # <<>>

\* a || b on optional numbers
OrElse(a, b) == IF TruthyNumber(a) THEN a ELSE b

IsExactMatch(doc, thLevel) ==
  LET content == toLowerCase(doc.content) IN
  \/ includes(content, <<"t", "h">> \o numToString(thLevel))
  \/ includes(content, <<"t", "o", "w", "n", " ", "h", "a", "l", "l", " ">> \o numToString(thLevel))
  \/ includes(content, <<"t", "o", "w", "n", "h", "a", "l", "l", " ">> \o numToString(thLevel))
  \/ includes(content, <<"t", "h", " ">> \o numToString(thLevel))

IsNearbyMatch(doc, thLevel) ==
  LET content == toLowerCase(doc.content) IN
  \/ includes(content, <<"t", "h">> \o numToString(thLevel - 1))
  \/ includes(content, <<"t", "h">> \o numToString(thLevel + 1))
  \/ includes(content, <<"t", "o", "w", "n", " ", "h", "a", "l", "l", " ">> \o numToString(thLevel - 1))
  \/ includes(content, <<"t", "o", "w", "n", " ", "h", "a", "l", "l", " ">> \o numToString(thLevel + 1))

\* for (const match of nearby) if (!combined.some(same key)) combined.push
RECURSIVE PushNewRefs(_, _, _)
PushNewRefs(acc, more, embeddings) ==
  IF Len(more) = 0 THEN acc
  ELSE PushNewRefs(
         IF \E k \in 1..Len(acc) : SameKey(embeddings[acc[k]], embeddings[Head(more)])
         THEN acc ELSE Append(acc, Head(more)),
         Tail(more), embeddings)

\* FilterRefs asking for more than MinTierMatches matches instead of at least
\* MinTierMatches
FilterRefsStrict(thLevel, embeddings) ==
  IF ~TruthyNumber(thLevel) THEN Indices(embeddings)
  ELSE LET Exact(i) == IsExactMatch(embeddings[i], Val(thLevel))
           Nearby(i) == IsNearbyMatch(embeddings[i], Val(thLevel))
           exactMatches == SelectSeq(Indices(embeddings), Exact)
           nearbyMatches == SelectSeq(Indices(embeddings), Nearby)
           combinedMatches == PushNewRefs(exactMatches, nearbyMatches, embeddings)
       IN IF Len(exactMatches) > MinTierMatches THEN exactMatches
          ELSE IF Len(combinedMatches) > MinTierMatches THEN combinedMatches
          ELSE Indices(embeddings)

\* FilterRefs without the fallback to the whole corpus
FilterRefsNoFallback(thLevel, embeddings) ==
  IF ~TruthyNumber(thLevel) THEN Indices(embeddings)
  ELSE LET Exact(i) == IsExactMatch(embeddings[i], Val(thLevel))
           Nearby(i) == IsNearbyMatch(embeddings[i], Val(thLevel))
           exactMatches == SelectSeq(Indices(embeddings), Exact)
           nearbyMatches == SelectSeq(Indices(embeddings), Nearby)
           combinedMatches == PushNewRefs(exactMatches, nearbyMatches, embeddings)
       IN IF Len(exactMatches) >= MinTierMatches THEN exactMatches
          ELSE combinedMatches

FilterRefs(thLevel, embeddings) ==
  IF ~TruthyNumber(thLevel) THEN Indices(embeddings)
  ELSE LET Exact(i) == IsExactMatch(embeddings[i], Val(thLevel))
           Nearby(i) == IsNearbyMatch(embeddings[i], Val(thLevel))
           exactMatches == SelectSeq(Indices(embeddings), Exact)
           nearbyMatches == SelectSeq(Indices(embeddings), Nearby)
           combinedMatches == PushNewRefs(exactMatches, nearbyMatches, embeddings)
       IN IF Len(exactMatches) >= MinTierMatches THEN exactMatches
          ELSE IF Len(combinedMatches) >= MinTierMatches THEN combinedMatches
          ELSE Indices(embeddings)

Deref(refs, embeddings) == LET At(i) == embeddings[i] IN Array([ix \in DOMAIN refs |-> At(refs[ix])])

filterByTownHallLevel(thLevel, embeddings) ==
  Deref(FilterRefs(thLevel, embeddings), embeddings)

\* ------------------------------------------------------------------------
\* retrieveContext
\* ------------------------------------------------------------------------
SemanticTopK == 7
KeywordTopK == 7
TypeBoostTopK == 3
TroopBoostTopK == 2
ContextTopK == 5
ContextLambda == 7

\* Boost computing the similarity written to a document against the
\* document's own embedding instead of the query embedding
BoostWrongVector(combinedResults, matchRefs, embeddings, queryEmbedding, topK) ==
  LET Write(i) == IF Contains(matchRefs, i)
                  THEN EnsureSimilarity(embeddings[i], embeddings[i].embedding)
                  ELSE embeddings[i]
      written == Array([ix \in DOMAIN embeddings |-> Write(ix)])
      matches == Deref(matchRefs, written)
      topMatches == Slice(SortDescBy(matches, Similarities(matches)), topK)
  IN [filtered |-> PushNew(combinedResults, topMatches), embeddings |-> written]

\* the intent boost.  matchRefs are the documents of filteredEmbeddings
\* (references into the corpus) that the intent's test selects: each gets a
\* similarity when it has none, they are sorted by it, and the first topK of
\* them are pushed when not yet included.  Returns the candidate list and
\* the corpus as the writes leave it.
Boost(combinedResults, matchRefs, embeddings, queryEmbedding, topK) ==
  LET Write(i) == IF Contains(matchRefs, i)
                  THEN EnsureSimilarity(embeddings[i], queryEmbedding)
                  ELSE embeddings[i]
      written == Array([ix \in DOMAIN embeddings |-> Write(ix)])
      matches == Deref(matchRefs, written)
      topMatches == Slice(SortDescBy(matches, Similarities(matches)), topK)
  IN [filtered |-> PushNew(combinedResults, topMatches), embeddings |-> written]

\* every candidate gets the similarity it lacks (keyword-only matches)
EnsureSimilarities(combinedResults, queryEmbedding) ==
  Array([ix \in DOMAIN combinedResults |->
           EnsureSimilarity(combinedResults[ix], queryEmbedding)])

\* the semantic matches followed by the keyword matches not among them,
\* each with a similarity
CombinedResults(query, filteredEmbeddings, queryEmbedding) ==
  EnsureSimilarities(
    PushNew(findSimilarDocuments(queryEmbedding, filteredEmbeddings, SemanticTopK),
            findKeywordMatches(extractKeywords(query), filteredEmbeddings,
                               KeywordTopK)),
    queryEmbedding)

\* the boost of the intent, when the intent has one and its parameter is
\* set: the candidate list and the corpus as the boost leaves them
IntentBoost(queryAnalysis, combinedResults, refs, embeddings, queryEmbedding) ==
  LET itemType == queryAnalysis.params.itemType
      focusTroop == queryAnalysis.params.focusTroop
      IsTypeMatch(i) ==
        \/ embeddings[i].metadata.type = Val(itemType)
        \/ includes(toLowerCase(embeddings[i].content), Val(itemType))
      IsTroopDoc(i) ==
        \/ /\ embeddings[i].metadata.name # <<>>
           /\ includes(toLowerCase(embeddings[i].metadata.name), Val(focusTroop))
        \/ includes(toLowerCase(embeddings[i].content), Val(focusTroop))
  IN IF queryAnalysis.intent = "upgrade_priority" /\ TruthyString(itemType)
     THEN Boost(combinedResults, SelectSeq(refs, IsTypeMatch), embeddings,
                queryEmbedding, TypeBoostTopK)
     ELSE IF queryAnalysis.intent = "attack_strategy" /\ TruthyString(focusTroop)
     THEN Boost(combinedResults, SelectSeq(refs, IsTroopDoc), embeddings,
                queryEmbedding, TroopBoostTopK)
     ELSE [filtered |-> combinedResults, embeddings |-> embeddings]

\* the return value of retrieveContext, with the candidate list MMR chose
\* from and the corpus as the call leaves it
Diversified(boosted, queryEmbedding) ==
  [result |-> applyMMR(boosted.filtered, queryEmbedding, ContextTopK, ContextLambda),
   candidates |-> boosted.filtered,
   embeddings |-> boosted.embeddings]

\* retrieveContext on the documents refs that the town hall filter kept
RetrieveFrom(query, queryAnalysis, embeddings, queryEmbedding, refs) ==
  Diversified(
    IntentBoost(queryAnalysis,
                CombinedResults(query, Deref(refs, embeddings), queryEmbedding),
                refs, embeddings, queryEmbedding),
    queryEmbedding)

retrieveContext(query, queryAnalysis, embeddings, queryEmbedding) ==
  RetrieveFrom(query, queryAnalysis, embeddings, queryEmbedding,
               FilterRefs(OrElse(queryAnalysis.params.townHallLevel,
                                 queryAnalysis.params.targetTH),
                          embeddings))

\* ------------------------------------------------------------------------
\* The context assembly: generateAdvisorPrompt and the sources of processQuery
\* ------------------------------------------------------------------------
\* String.prototype.trim: the first and the last position of s that hold no
\* white space (1 and 0 when there is none)
trim(s) ==
  LET blank == \A i \in 1..Len(s) : s[i] \in WhiteSpace
      start == IF blank THEN 1
               ELSE CHOOSE i \in 1..Len(s) :
                      s[i] \notin WhiteSpace /\ \A k \in 1..(i - 1) : s[k] \in WhiteSpace
      end == IF blank THEN 0
             ELSE CHOOSE i \in 1..Len(s) :
                    s[i] \notin WhiteSpace /\ \A k \in (i + 1)..Len(s) : s[k] \in WhiteSpace
  IN SubSeq(s, start, end)

\* queryAnalysis.intent.replace(/_/g, ' ')
IntentText ==
  [intent \in Intents |->
     CASE intent = "upgrade_priority" -> "upgrade priority"
       [] intent = "attack_strategy" -> "attack strategy"
       [] intent = "base_design" -> "base design"
       [] intent = "resource_management" -> "resource management"
       [] OTHER -> intent]

\* `[Document ${index + 1}] ${name ? name + ': ' : ''}${content.trim()}`
ContextEntry(doc, index) ==
  [document |-> index,
   label |-> IF doc.metadata.name # <<>> THEN doc.metadata.name \o <<":", " ">> ELSE <<>>,
   text |-> trim(doc.content)]

\* the parts of the prompt that depend on the arguments: the query, the
\* QUERY ANALYSIS lines and the context information.  An optional line is
\* present when its parameter is.
generateAdvisorPrompt(query, queryAnalysis, contextDocs) ==
  [query |-> query,
   intent |-> IntentText[queryAnalysis.intent],
   townHallLevel |-> OrElse(queryAnalysis.params.townHallLevel,
                            queryAnalysis.params.targetTH),
   focusTroop |-> queryAnalysis.params.focusTroop,
   attackType |-> queryAnalysis.params.attackType,
   baseType |-> queryAnalysis.params.baseType,
   itemType |-> queryAnalysis.params.itemType,
   contextInfo |-> Array([ix \in DOMAIN contextDocs |->
                            ContextEntry(contextDocs[ix], ix)])]

\* the percentage of the relevance
PercentScale == 100

\* Math.round(num / den) for den > 0: the nearest integer, halves upwards
Round(num, den) == (2 * num + den) \div (2 * den)

\* doc.similarity ? Math.round(doc.similarity * 100) : null
Relevance(doc) ==
  IF TruthyNumber(doc.similarity)
  THEN Some(Round(SimilarityOf(doc) * PercentScale, SimScale))
  ELSE Undefined

\* sources: contextDocs.map(...); x || 'Unknown' on strings; the documents
\* carry no url (url || null)
Sources(contextDocs) ==
  LET OrUnknown(x) == IF x # <<>> THEN x ELSE <<"U", "n", "k", "n", "o", "w", "n">>
      SourceOf(doc) ==
        [name |-> OrUnknown(doc.metadata.name),
         type |-> OrUnknown(doc.metadata.type),
         category |-> doc.metadata.category,
         url |-> Undefined,
         relevance |-> Relevance(doc)]
  IN Array([ix \in DOMAIN contextDocs |-> SourceOf(contextDocs[ix])])

\* Assemble returning the intent as the prompt displays it
AssembleDisplayedIntent(query, queryAnalysis, contextDocs) ==
  [query |-> query,
   intent |-> IntentText[queryAnalysis.intent],
   parameters |-> queryAnalysis.params,
   prompt |-> generateAdvisorPrompt(query, queryAnalysis, contextDocs),
   sources |-> Sources(contextDocs),
   contextCount |-> Len(contextDocs)]

\* what processQuery assembles from the analysis and the retrieved documents
\* (the answer of the language model apart)
Assemble(query, queryAnalysis, contextDocs) ==
  [query |-> query,
   intent |-> queryAnalysis.intent,
   parameters |-> queryAnalysis.params,
   prompt |-> generateAdvisorPrompt(query, queryAnalysis, contextDocs),
   sources |-> Sources(contextDocs),
   contextCount |-> Len(contextDocs)]

\* ------------------------------------------------------------------------
\* State
\* ------------------------------------------------------------------------
VARIABLES
  disk,        \* the corpus as data/processed/embeddings.json holds it
  embeddings,  \* the in-memory corpus array handed to the retrieval calls
  calls,       \* the retrieveContext calls made on `embeddings` since loadData
  call,        \* the function call under examination: its name and arguments
  ret          \* its return value, Undefined until it has returned

vars == <<disk, embeddings, calls, call, ret>>

NoCall == [fn |-> "none"]

\* ------------------------------------------------------------------------
\* Bounds
\* ------------------------------------------------------------------------
MaxDocs == 8
MaxCalls == 2
MaxPhrases == 2
MaxFilterDocs == 6
MaxCandidates == 4
MaxTopK == 3

\* all sequences over S of length at most n
SeqsUpTo(S, n) == UNION {[1..k -> S] : k \in 0..n}

\* ------------------------------------------------------------------------
\* Corpora.  Document i of a corpus has id (i + 1) \div 2 and alternates between
\* the categories basic_info and stats, as process-data.js emits several
\* category records for one entity: keys (id, category) are unique, ids are
\* not.
\* ------------------------------------------------------------------------
MakeDoc(i, name, type, content, embedding) ==
  [metadata |-> [id |-> (i + 1) \div 2,
                 category |-> <<"basic_info", "stats">>[2 - (i % 2)],
                 name |-> name, type |-> type],
   content |-> content, embedding |-> embedding,
   similarity |-> Undefined, keywordScore |-> Undefined]

DocKinds ==
  << [name |-> <<"C", "a", "n", "n", "o", "n">>, type |-> <<"d", "e", "f", "e", "n", "s", "e">>,
      content |-> <<"C", "a", "n", "n", "o", "n", " ", "d", "e", "f", "e", "n", "s", "e", " ", "T", "H", "9">>, embedding |-> <<1, 0>>],
     [name |-> <<"D", "r", "a", "g", "o", "n">>, type |-> <<"t", "r", "o", "o", "p">>,
      content |-> <<"D", "r", "a", "g", "o", "n", " ", "t", "r", "o", "o", "p", " ", "t", "h", "1", "0", " ", "b", "e", "a", "t", "s", " ", "d", "e", "f", "e", "n", "s", "e">>, embedding |-> <<0, 1>>] >>

CorpusOf(kinds, ks) ==
  LET DocAt(i) == MakeDoc(i, kinds[ks[i]].name, kinds[ks[i]].type,
                          kinds[ks[i]].content, kinds[ks[i]].embedding)
  IN Array([ix \in DOMAIN ks |-> DocAt(ix)])

Corpora == {CorpusOf(DocKinds, ks) : ks \in SeqsUpTo(1..Len(DocKinds), MaxDocs)}

\* the queries of the retrieval calls and what the embedding service
\* answers for each
QueryTexts == << <<"d", "r", "a", "g", "o", "n", " ", "a", "t", "t", "a", "c", "k", " ", "T", "H", "9">>, <<"U", "p", "g", "r", "a", "d", "e", " ", "c", "a", "n", "n", "o", "n", "?">>, <<"b", "e", "s", "t", " ", "g", "o", "l", "d", " ", "f", "a", "r", "m", "i", "n", "g">> >>

\* queries that name town hall level 9, the second with an item type, and
\* what the embedding service answers for each
TierQueryTexts == << <<"W", "h", "a", "t", " ", "s", "h", "o", "u", "l", "d", " ", "I", " ", "u", "p", "g", "r", "a", "d", "e", " ", "f", "i", "r", "s", "t", " ", "a", "t", " ", "T", "H", "9", "?">>, <<"U", "p", "g", "r", "a", "d", "e", " ", "d", "e", "f", "e", "n", "s", "e", " ", "T", "H", "9">> >>

generateQueryEmbedding(query) ==
  LET texts == QueryTexts \o TierQueryTexts
      answers == << <<1, 0>>, <<0, 1>>, <<3, 4>> >> \o << <<0, 1>>, <<3, 4>> >>
  IN answers[CHOOSE i \in 1..Len(texts) : texts[i] = query]

\* ------------------------------------------------------------------------
\* Spec: retrieval calls on a loaded corpus
\* ------------------------------------------------------------------------
Init ==
  /\ disk \in Corpora
  /\ embeddings = disk
  /\ calls = <<>>
  /\ call = NoCall
  /\ ret = Undefined

\* const { embeddings } = await loadData(): a fresh array read from disk
LoadData ==
  /\ embeddings' = disk
  /\ calls' = <<>>
  /\ UNCHANGED <<disk, call, ret>>

\* the call returns r: the corpus holds what the call wrote, and the call
\* is recorded with its arguments and with the context assembled from the
\* documents it returned
Return(query, queryAnalysis, queryEmbedding, r) ==
  /\ embeddings' = r.embeddings
  /\ calls' = Append(calls,
                [query |-> query, queryAnalysis |-> queryAnalysis,
                 queryEmbedding |-> queryEmbedding,
                 result |-> r.result, candidates |-> r.candidates,
                 context |-> Assemble(query, queryAnalysis, r.result)])

\* analyzeQuery(query), await retrieveContext(query, analysis, embeddings),
\* then the context assembly

RetrieveContext(query) ==
  /\ Len(calls) < MaxCalls
  /\ LET queryAnalysis == analyzeQuery(query)
         queryEmbedding == generateQueryEmbedding(query)
     IN Return(query, queryAnalysis, queryEmbedding,
               retrieveContext(query, queryAnalysis, embeddings, queryEmbedding))
  /\ UNCHANGED <<disk, call, ret>>

Spec ==
  Init /\ [][\/ LoadData
             \/ \E i \in 1..Len(QueryTexts) : RetrieveContext(QueryTexts[i])]_vars

\* ------------------------------------------------------------------------
\* SpecTier: one retrieval call with a query for town hall level 9 on a
\* freshly loaded corpus of at most MaxFilterDocs documents, some about
\* level 9 and some about level 11
\* ------------------------------------------------------------------------
TierDocKinds ==
  << [name |-> <<"C", "a", "n", "n", "o", "n">>, type |-> <<"d", "e", "f", "e", "n", "s", "e">>,
      content |-> <<"C", "a", "n", "n", "o", "n", " ", "d", "e", "f", "e", "n", "s", "e", " ", "T", "H", "9">>, embedding |-> <<1, 0>>],
     [name |-> <<"D", "r", "a", "g", "o", "n">>, type |-> <<"t", "r", "o", "o", "p">>,
      content |-> <<"D", "r", "a", "g", "o", "n", " ", "t", "r", "o", "o", "p", " ", "T", "H", "9">>, embedding |-> <<0, 1>>],
     [name |-> <<"X", "b", "o", "w">>, type |-> <<"d", "e", "f", "e", "n", "s", "e">>,
      content |-> <<"X", "b", "o", "w", " ", "d", "e", "f", "e", "n", "s", "e", " ", "t", "h", "1", "1">>, embedding |-> <<3, 4>>] >>

InitTier ==
  /\ disk \in {CorpusOf(TierDocKinds, ks) :
                 ks \in SeqsUpTo(1..Len(TierDocKinds), MaxFilterDocs)}
  /\ embeddings = disk
  /\ calls = <<>>
  /\ call = NoCall
  /\ ret = Undefined

\* one call on the loaded corpus
SpecTier ==
  InitTier
  /\ [][\E i \in 1..Len(TierQueryTexts) :
          Len(calls) = 0 /\ RetrieveContext(TierQueryTexts[i])]_vars

\* ------------------------------------------------------------------------
\* SpecOverlap: two callers, one retrieveContext call each, on the same
\* corpus array.  retrieveContext runs from its entry to its only await
\* (the embedding request) in one step and from the answer of the embedding
\* service to its return in another; the steps of the two calls interleave.
\* call[p] is the call of caller p, calls the settled calls in the order in
\* which they settled.
\* ------------------------------------------------------------------------
Callers == {"a", "b"}

\* what the embedding service can fail with
EmbeddingErrors == {"Request failed with status code 500"}

\* the queries of the overlapping calls: those whose intent has a boost

OverlapQueries ==
  LET HasBoost(query) ==
        analyzeQuery(query).intent \in {"upgrade_priority", "attack_strategy"}
  IN SelectSeq(QueryTexts, HasBoost)


InitOverlap ==
  /\ disk \in Corpora
  /\ embeddings = disk
  /\ calls = <<>>
  /\ call = [p \in Callers |-> [pc |-> "idle"]]
  /\ ret = Undefined

\* entry of retrieveContext up to the await: the town hall filter has run
\* and one embedding request is out
Suspended(query, queryAnalysis, corpus, overlapped) ==
  [pc |-> "awaiting", query |-> query, queryAnalysis |-> queryAnalysis,
   refs |-> FilterRefs(OrElse(queryAnalysis.params.townHallLevel,
                              queryAnalysis.params.targetTH),
                       corpus),
   requests |-> 1, overlapped |-> overlapped]

\* the callers are alike, so caller b calls no earlier than caller a; a call
\* that starts while another is suspended overlaps it
StartRetrieve(p, query) ==
  /\ call[p].pc = "idle"
  /\ p = "a" \/ call["a"].pc # "idle"
  /\ call' = [q \in Callers |->
                IF q = p
                THEN Suspended(query, analyzeQuery(query), embeddings,
                               \E o \in Callers : call[o].pc = "awaiting")
                ELSE IF call[q].pc = "awaiting"
                THEN [call[q] EXCEPT !.overlapped = TRUE]
                ELSE call[q]]
  /\ UNCHANGED <<disk, embeddings, calls, ret>>

\* the call of caller p returns r
Fulfil(p, queryEmbedding, r) ==
  /\ embeddings' = r.embeddings
  /\ calls' = Append(calls,
                [caller |-> p, status |-> "fulfilled",
                 query |-> call[p].query,
                 queryAnalysis |-> call[p].queryAnalysis,
                 queryEmbedding |-> queryEmbedding,
                 requests |-> call[p].requests,
                 overlapped |-> call[p].overlapped,
                 result |-> r.result, candidates |-> r.candidates])
  /\ call' = [call EXCEPT ![p] = [pc |-> "settled"]]

\* the embedding arrives: the call resumes and runs to its return
EmbeddingArrives(p) ==
  /\ call[p].pc = "awaiting"
  /\ Fulfil(p, generateQueryEmbedding(call[p].query),
            RetrieveFrom(call[p].query, call[p].queryAnalysis, embeddings,
                         generateQueryEmbedding(call[p].query), call[p].refs))
  /\ UNCHANGED <<disk, ret>>

\* the await throws again where the call has no handler installed and
\* starts a new request
OnEmbeddingErrorRetry(p, error) ==
  /\ call' = [call EXCEPT ![p].requests = @ + 1]
  /\ UNCHANGED calls

\* the await throws what generateQueryEmbedding threw; retrieveContext has
\* no try around it, so the call rejects with that error
OnEmbeddingError(p, error) ==
  /\ calls' = Append(calls,
                [caller |-> p, status |-> "rejected",
                 query |-> call[p].query,
                 requests |-> call[p].requests,
                 overlapped |-> call[p].overlapped,
                 thrown |-> error, error |-> error])
  /\ call' = [call EXCEPT ![p] = [pc |-> "settled"]]

\* the embedding request fails: LLMConfigManager logs the error and throws
\* it again
EmbeddingFails(p, error) ==
  /\ call[p].pc = "awaiting"
  /\ OnEmbeddingError(p, error)
  /\ UNCHANGED <<disk, embeddings, ret>>

SpecOverlap ==
  InitOverlap
  /\ [][\E p \in Callers :
          \/ \E i \in 1..Len(OverlapQueries) : StartRetrieve(p, OverlapQueries[i])
          \/ EmbeddingArrives(p)
          \/ \E error \in EmbeddingErrors : EmbeddingFails(p, error)]_vars

\* ------------------------------------------------------------------------
\* SpecAnalyze: analyzeQuery applied to the queries made of at most
\* MaxPhrases phrases separated by one blank
\* ------------------------------------------------------------------------
Phrases ==
  << <<"U", "p", "g", "r", "a", "d", "e">>, <<"a", "r", "m", "y">>, <<"w", "a", "r", " ", "b", "a", "s", "e">>, <<"g", "o", "l", "d">>, <<"T", "H", "9">>, <<"t", "o", "w", "n", " ", "h", "a", "l", "l", " ", "1", "0">>,
     <<"t", "h", " ", "7">>, <<"w", "i", "t", "h", " ", "3">>, <<"h", "e", "l", "l", "o">>, <<"a", "t", "t", "a", "c", "k">>, <<"b", "a", "b", "y", " ", "d", "r", "a", "g", "o", "n", " ", "r", "a", "i", "d">>,
     <<"w", "i", "z", "a", "r", "d", " ", "t", "h", "e", "n", " ", "a", "r", "c", "h", "e", "r", " ", "a", "t", "t", "a", "c", "k">> >>

RECURSIVE JoinPhrases(_, _)
JoinPhrases(phrases, ps) ==
  IF Len(ps) = 0 THEN <<>>
  ELSE IF Len(ps) = 1 THEN phrases[ps[1]]
  ELSE phrases[ps[1]] \o <<" ">> \o JoinPhrases(phrases, Tail(ps))

Returned(fn) == call.fn = fn /\ ret # Undefined

InitAnalyze ==
  /\ call \in {[fn |-> "analyzeQuery", query |-> JoinPhrases(Phrases, ps)] :
                 ps \in SeqsUpTo(1..Len(Phrases), MaxPhrases)}
  /\ ret = Undefined
  /\ disk = <<>>
  /\ embeddings = <<>>
  /\ calls = <<>>

AnalyzeQuery ==
  /\ call.fn = "analyzeQuery"
  /\ ret = Undefined
  /\ ret' = Some(analyzeQuery(call.query))
  /\ UNCHANGED <<disk, embeddings, calls, call>>

SpecAnalyze == InitAnalyze /\ [][AnalyzeQuery]_vars

\* C4: the intent is fixed by the first rule that matches the lower-cased
\* query, in the order upgrade-priority, attack-strategy, base-design,
\* resource-management; a query matching no rule is 'general'; the intent is
\* always one of the five values.
C4_IntentCascade ==
  Returned("analyzeQuery") =>
    LET lowerQuery == toLowerCase(call.query)
        intent == Val(ret).intent
    IN /\ intent \in Intents
       /\ UpgradeRule(lowerQuery) => intent = "upgrade_priority"
       /\ (~UpgradeRule(lowerQuery) /\ AttackRule(lowerQuery))
            => intent = "attack_strategy"
       /\ (~UpgradeRule(lowerQuery) /\ ~AttackRule(lowerQuery)
             /\ BaseRule(lowerQuery))
            => intent = "base_design"
       /\ (~UpgradeRule(lowerQuery) /\ ~AttackRule(lowerQuery)
             /\ ~BaseRule(lowerQuery) /\ ResourceRule(lowerQuery))
            => intent = "resource_management"
       /\ (~UpgradeRule(lowerQuery) /\ ~AttackRule(lowerQuery)
             /\ ~BaseRule(lowerQuery) /\ ~ResourceRule(lowerQuery))
            => intent = "general"

\* a query written with a capital that matches the upgrade rule and the
\* attack rule has been classified as upgrade_priority
C4_Witness ==
  /\ Returned("analyzeQuery")
  /\ call.query # toLowerCase(call.query)
  /\ UpgradeRule(toLowerCase(call.query))
  /\ AttackRule(toLowerCase(call.query))
  /\ Val(ret).intent = "upgrade_priority"

\* the tiers a query mentions as words: a word th<n>, the word th followed by
\* the word <n>, or the words town hall <n>
IsNumeral(word) == Len(word) > 0 /\ \A i \in 1..Len(word) : IsDigit(word[i])

WordTiers(query) ==
  LET words == SplitWhiteSpace(toLowerCase(query))
      n == Len(words)
  IN {parseInt(SubSeq(words[i], 3, Len(words[i]))) :
        i \in {k \in 1..n : /\ Len(words[k]) > 2
                            /\ SubSeq(words[k], 1, 2) = <<"t", "h">>
                            /\ IsNumeral(SubSeq(words[k], 3, Len(words[k])))}}
     \cup {parseInt(words[i + 1]) :
             i \in {k \in 1..(n - 1) : words[k] = <<"t", "h">> /\ IsNumeral(words[k + 1])}}
     \cup {parseInt(words[i + 2]) :
             i \in {k \in 1..(n - 2) : /\ words[k] = <<"t", "o", "w", "n">>
                                       /\ words[k + 1] = <<"h", "a", "l", "l">>
                                       /\ IsNumeral(words[k + 2])}}

\* C5: a query that mentions a tier as a word gets that tier as
\* params.townHallLevel whichever intent is chosen; a query that mentions no
\* tier in a word form has no params.townHallLevel.
C5_TierFromWordForms ==
  Returned("analyzeQuery") =>
    LET level == Val(ret).params.townHallLevel
        tiers == WordTiers(call.query)
    IN IF tiers = {} THEN level = Undefined
       ELSE level # Undefined /\ Val(level) \in tiers

\* ------------------------------------------------------------------------
\* SpecFilter: filterByTownHallLevel applied to corpora of at most
\* MaxFilterDocs documents
\* ------------------------------------------------------------------------
FilterDocKinds ==
  << [name |-> <<"D", "o", "c">>, type |-> <<"d", "e", "f", "e", "n", "s", "e">>,
      content |-> <<"T", "H", "9", " ", "b", "a", "s", "e">>, embedding |-> <<1, 0>>],
     [name |-> <<"D", "o", "c">>, type |-> <<"d", "e", "f", "e", "n", "s", "e">>,
      content |-> <<"t", "o", "w", "n", " ", "h", "a", "l", "l", " ", "1", "0", " ", "w", "a", "l", "l", "s">>, embedding |-> <<1, 0>>],
     [name |-> <<"D", "o", "c">>, type |-> <<"d", "e", "f", "e", "n", "s", "e">>,
      content |-> <<"t", "h", "8", " ", "a", "n", "d", " ", "t", "h", "9", " ", "a", "r", "m", "y">>, embedding |-> <<1, 0>>],
     [name |-> <<"D", "o", "c">>, type |-> <<"d", "e", "f", "e", "n", "s", "e">>,
      content |-> <<"d", "r", "a", "g", "o", "n">>, embedding |-> <<1, 0>>] >>

\* thLevel is absent or one of the levels 1, 9 and 10
InitFilter ==
  /\ disk \in {CorpusOf(FilterDocKinds, ks) :
                 ks \in SeqsUpTo(1..Len(FilterDocKinds), MaxFilterDocs)}
  /\ embeddings = disk
  /\ calls = <<>>
  /\ call \in {[fn |-> "filterByTownHallLevel", thLevel |-> t] :
                 t \in {Undefined} \cup {Some(n) : n \in {1, 9, 10}}}
  /\ ret = Undefined

FilterByTownHallLevel ==
  /\ call.fn = "filterByTownHallLevel"
  /\ ret = Undefined
  /\ ret' = Some(filterByTownHallLevel(call.thLevel, embeddings))
  /\ UNCHANGED <<disk, embeddings, calls, call>>

SpecFilter == InitFilter /\ [][FilterByTownHallLevel]_vars

ExactSet(thLevel, corpus) ==
  {i \in 1..Len(corpus) : IsExactMatch(corpus[i], thLevel)}
NearbySet(thLevel, corpus) ==
  {i \in 1..Len(corpus) : IsNearbyMatch(corpus[i], thLevel)}
Range(arr) == {arr[i] : i \in 1..Len(arr)}
NoDuplicateKeys(arr) ==
  \A i, j \in 1..Len(arr) : SameKey(arr[i], arr[j]) => i = j

\* C6: without a tier the filter returns the corpus; with a tier it returns
\* the exact matches when there are at least 5, else the union of the exact
\* and the nearby matches, without duplicate (id, category), when that union
\* has at least 5 members, else the whole corpus.
C6_FilterCases ==
  Returned("filterByTownHallLevel") =>
    LET result == Val(ret)
        exact == IF call.thLevel = Undefined THEN {}
                 ELSE ExactSet(Val(call.thLevel), embeddings)
        nearby == IF call.thLevel = Undefined THEN {}
                  ELSE NearbySet(Val(call.thLevel), embeddings)
    IN IF call.thLevel = Undefined THEN result = embeddings
       ELSE IF Cardinality(exact) >= 5
       THEN /\ Range(result) = {embeddings[i] : i \in exact}
            /\ Len(result) = Cardinality(exact)
       ELSE IF Cardinality(exact \cup nearby) >= 5
       THEN /\ Range(result) = {embeddings[i] : i \in exact \cup nearby}
            /\ Len(result) = Cardinality(exact \cup nearby)
            /\ NoDuplicateKeys(result)
       ELSE result = embeddings

\* the union of fewer than 5 exact matches and the nearby matches was
\* returned, one document being both, and it is not the whole corpus
C6_Witness ==
  /\ Returned("filterByTownHallLevel")
  /\ call.thLevel # Undefined
  /\ Cardinality(ExactSet(Val(call.thLevel), embeddings)) < 5
  /\ ExactSet(Val(call.thLevel), embeddings)
       \cap NearbySet(Val(call.thLevel), embeddings) # {}
  /\ Len(Val(ret)) >= 5
  /\ Len(Val(ret)) < Len(embeddings)

\* C7: the filter returns documents of the corpus only, and at least
\* min(5, |corpus|) of them.
C7_FilterPoolSize ==
  Returned("filterByTownHallLevel") =>
    /\ Range(Val(ret)) \subseteq Range(embeddings)
    /\ Len(Val(ret)) >= Min(5, Len(embeddings))

\* a tier with some but fewer than 5 exact-or-nearby matches in a corpus of
\* more than 5 documents: the whole corpus came back
C7_Witness ==
  /\ Returned("filterByTownHallLevel")
  /\ call.thLevel # Undefined
  /\ Len(embeddings) > 5
  /\ ExactSet(Val(call.thLevel), embeddings) # {}
  /\ Cardinality(ExactSet(Val(call.thLevel), embeddings)
                   \cup NearbySet(Val(call.thLevel), embeddings)) < 5
  /\ Len(Val(ret)) = Len(embeddings)

\* ------------------------------------------------------------------------
\* SpecMMR: applyMMR applied to candidate lists of at most MaxCandidates
\* entries, topK in 1..MaxTopK and lambda in tenths
\* ------------------------------------------------------------------------
CandidatePool ==
  << [similarity |-> 100, embedding |-> <<1, 0>>],
     [similarity |-> 80, embedding |-> <<4, 3>>],
     [similarity |-> 60, embedding |-> <<3, 4>>],
     [similarity |-> 0, embedding |-> <<0, 1>>],
     [similarity |-> 0 - 100, embedding |-> <<0 - 1, 0>>] >>

InitMMR ==
  /\ disk = <<>>
  /\ embeddings = <<>>
  /\ calls = <<>>
  /\ call \in {[fn |-> "applyMMR",
                candidates |->
                  Array([ix \in DOMAIN cs |->
                           [metadata |-> [id |-> ix, category |-> "basic_info"],
                            embedding |-> CandidatePool[cs[ix]].embedding,
                            similarity |-> Some(CandidatePool[cs[ix]].similarity)]]),
                queryEmbedding |-> <<1, 0>>, topK |-> k, lambda |-> l] :
                 cs \in SeqsUpTo(1..Len(CandidatePool), MaxCandidates),
                 k \in 1..MaxTopK, l \in {0, 5, 7, 10}}
  /\ ret = Undefined

ApplyMMR ==
  /\ call.fn = "applyMMR"
  /\ ret = Undefined
  /\ ret' = Some(applyMMR(call.candidates, call.queryEmbedding,
                          call.topK, call.lambda))
  /\ UNCHANGED <<disk, embeddings, calls, call>>

SpecMMR == InitMMR /\ [][ApplyMMR]_vars

\* the entries of arr are pairwise different entries of the list from
NoRepeats(arr) == \A i, j \in 1..Len(arr) : arr[i] = arr[j] => i = j

\* C2: applyMMR returns exactly min(K, |candidates|) documents, each a
\* distinct entry of the candidate list.
C2_MmrSize ==
  Returned("applyMMR") =>
    /\ Len(Val(ret)) = Min(call.topK, Len(call.candidates))
    /\ Range(Val(ret)) \subseteq Range(call.candidates)
    /\ NoRepeats(Val(ret))

\* the K candidates of highest similarity, ties going to the candidate met
\* first in the list, in descending order of similarity
SimilarityRank(candidates, i) ==
  1 + Cardinality({j \in 1..Len(candidates) :
                     Val(candidates[j].similarity) > Val(candidates[i].similarity)})
    + Cardinality({j \in 1..(i - 1) :
                     Val(candidates[j].similarity) = Val(candidates[i].similarity)})

TopBySimilarity(candidates, k) ==
  LET n == Min(k, Len(candidates))
  IN [r \in 1..n |->
        candidates[CHOOSE i \in 1..Len(candidates) :
                     SimilarityRank(candidates, i) = r]]

\* more candidates than K, K at least 2, lambda below 1, and the selection
\* differs from the K most similar candidates
C2_Witness ==
  /\ Returned("applyMMR")
  /\ Len(call.candidates) > call.topK
  /\ call.topK >= 2
  /\ call.lambda < LambdaScale
  /\ Range(Val(ret)) # Range(TopBySimilarity(call.candidates, call.topK))

\* C3: with lambda = 1 applyMMR returns the K candidates of highest
\* similarity, ties resolved by first-encountered order; when it has to
\* select (more candidates than K) it returns them in that order.
C3_LambdaOne ==
  (Returned("applyMMR") /\ call.lambda = LambdaScale) =>
    /\ Range(Val(ret)) = Range(TopBySimilarity(call.candidates, call.topK))
    /\ Len(call.candidates) > call.topK
         => Val(ret) = TopBySimilarity(call.candidates, call.topK)

\* lambda = 1, more candidates than K, the candidates were not given in
\* descending order and two of them tie on similarity across the cut
C3_Witness ==
  /\ Returned("applyMMR")
  /\ call.lambda = LambdaScale
  /\ Len(call.candidates) > call.topK
  /\ \E i \in 1..(Len(call.candidates) - 1) :
       Val(call.candidates[i].similarity) < Val(call.candidates[i + 1].similarity)
  /\ \E i \in 1..Len(call.candidates) :
       /\ SimilarityRank(call.candidates, i) > call.topK
       /\ SimilarityOf(call.candidates[i]) = SimilarityOf(Val(ret)[Len(Val(ret))])

\* ------------------------------------------------------------------------
\* Claims on the retrieval calls (Spec)
\* ------------------------------------------------------------------------
\* C1: on a corpus with unique (id, category) keys, the list retrieveContext
\* returns has no two entries with the same (id, category) and at most 5
\* entries, and the merged candidate list handed to applyMMR has no two
\* entries with the same (id, category) either.
C1_NoDuplicates ==
  \A i \in 1..Len(calls) :
    /\ NoDuplicateKeys(calls[i].result)
    /\ Len(calls[i].result) <= 5
    /\ NoDuplicateKeys(calls[i].candidates)

\* an upgrade query whose merged candidate list went beyond the semantic
\* top 7 and was cut down to 5 documents
C1_Witness ==
  \E i \in 1..Len(calls) :
    /\ NoDuplicateKeys(disk)
    /\ calls[i].queryAnalysis.intent = "upgrade_priority"
    /\ Len(calls[i].candidates) > SemanticTopK
    /\ Len(calls[i].result) = 5

\* C8: retrieval never mutates the corpus: every document of the embeddings
\* array has the fields and values it was loaded with, in the same order.
C8_CorpusUnchanged == embeddings = disk

\* C9: every retrieveContext call returns what a first call with the same
\* query on a freshly loaded corpus returns, whatever calls came before it.
C9_NoStateAcrossCalls ==
  \A i \in 1..Len(calls) :
    calls[i].result =
      retrieveContext(calls[i].query, calls[i].queryAnalysis, disk,
                      calls[i].queryEmbedding).result

\* C10: a call that repeats the inputs of the call made just before it on
\* the same corpus array returns the same ordered documents.
C10_Deterministic ==
  \A i \in 1..(Len(calls) - 1) :
    calls[i + 1].query = calls[i].query
      => calls[i + 1].result = calls[i].result

\* a query was repeated on a corpus array that its first call had written
\* to, with a keyword-only match among the candidates, and MMR had to select
C10_Witness ==
  \E i \in 1..(Len(calls) - 1) :
    /\ calls[i + 1].query = calls[i].query
    /\ embeddings # disk
    /\ Len(calls[i + 1].candidates) > SemanticTopK
    /\ Len(calls[i + 1].result) = ContextTopK

\* C11: a call that overlapped another call on the same corpus array returns
\* the ordered result it returns when it runs alone on the corpus as loaded.
C11_OverlapAsAlone ==
  \A i \in 1..Len(calls) :
    (calls[i].status = "fulfilled" /\ calls[i].overlapped)
      => calls[i].result =
           retrieveContext(calls[i].query, calls[i].queryAnalysis, disk,
                           calls[i].queryEmbedding).result

\* C13: the embedding service is asked exactly once per retrieveContext call,
\* while the call is suspended and when it has settled; a call whose
\* embedding request failed is rejected with the error the service threw and
\* carries no documents.
C13_EmbeddingFailure ==
  /\ \A p \in Callers : call[p].pc = "awaiting" => call[p].requests = 1
  /\ \A i \in 1..Len(calls) :
       /\ calls[i].requests = 1
       /\ calls[i].status = "rejected" =>
            /\ calls[i].thrown \in EmbeddingErrors
            /\ calls[i].error = calls[i].thrown
            /\ "result" \notin DOMAIN calls[i]

\* one call was rejected for a failed embedding request while the other
\* call on the same array returned documents
C13_Witness ==
  \E i, j \in 1..Len(calls) :
    /\ calls[i].status = "rejected"
    /\ calls[j].status = "fulfilled"
    /\ Len(calls[j].result) > 0

\* C12: on an empty corpus every call returns the empty list, and the
\* assembled context has no document and no source while its intent and
\* parameters are those of the query analysis.
C12_EmptyCorpus ==
  \A i \in 1..Len(calls) :
    Len(disk) = 0 =>
      /\ calls[i].result = <<>>
      /\ calls[i].candidates = <<>>
      /\ calls[i].context.sources = <<>>
      /\ calls[i].context.contextCount = 0
      /\ calls[i].context.prompt.contextInfo = <<>>
      /\ calls[i].context.intent = calls[i].queryAnalysis.intent
      /\ calls[i].context.parameters = calls[i].queryAnalysis.params
      /\ calls[i].context.prompt.intent = IntentText[calls[i].queryAnalysis.intent]
      /\ calls[i].context.prompt.query = calls[i].query

\* on the empty corpus, a query with a town hall level and a troop boost
\* and a query with a type boost have both been answered
C12_Witness ==
  /\ Len(disk) = 0
  /\ \E i, j \in 1..Len(calls) :
       /\ calls[i].queryAnalysis.intent = "attack_strategy"
       /\ calls[i].queryAnalysis.params.townHallLevel # Undefined
       /\ calls[j].queryAnalysis.intent = "upgrade_priority"
       /\ calls[j].queryAnalysis.params.itemType # Undefined

\* ------------------------------------------------------------------------
\* SpecKeywords: extractKeywords applied to the queries made of at most
\* MaxPhrases phrases separated by one blank
\* ------------------------------------------------------------------------
InitKeywords ==
  /\ LET KeywordPhrases ==
           << <<"D", "o", "n", "'", "t">>, <<"t", "h", "e">>, <<"w", "a", "r", "!">>, <<"T", "H", "9">>, <<"g", "o">>, <<"W", "a", "r", "d", "e", "n">>, <<"w", "i", "t", "h", " ", "3">>,
              <<"t", "o", "w", "n", " ", "h", "a", "l", "l", " ", "1", "0">>, <<"i", "s", " ", "i", "t">>, <<"C", "a", "n", "n", "o", "n", "s", ",">> >>
     IN call \in {[fn |-> "extractKeywords",
                   query |-> JoinPhrases(KeywordPhrases, ps)] :
                    ps \in SeqsUpTo(1..Len(KeywordPhrases), MaxPhrases)}
  /\ ret = Undefined
  /\ disk = <<>>
  /\ embeddings = <<>>
  /\ calls = <<>>

ExtractKeywords ==
  /\ call.fn = "extractKeywords"
  /\ ret = Undefined
  /\ ret' = Some(extractKeywords(call.query))
  /\ UNCHANGED <<disk, embeddings, calls, call>>

SpecKeywords == InitKeywords /\ [][ExtractKeywords]_vars

\* the allow-listed abbreviations
AllowListed == {<<"t", "h">>, <<"w", "a", "r">>, <<"c", "o", "c">>}

\* th<n> or townhall<n> for a numeral <n>
IsTierToken(keyword) ==
  \/ /\ Len(keyword) > 2
     /\ SubSeq(keyword, 1, 2) = <<"t", "h">>
     /\ IsNumeral(SubSeq(keyword, 3, Len(keyword)))
  \/ /\ Len(keyword) > 8
     /\ SubSeq(keyword, 1, 8) = <<"t", "o", "w", "n", "h", "a", "l", "l">>
     /\ IsNumeral(SubSeq(keyword, 9, Len(keyword)))

\* the query in lower case without its punctuation: what is left are
\* lower-case letters, digits, underscores and white space
IsPlainChar(c) ==
  \/ c \in WhiteSpace
  \/ c = "_"
  \/ \E i \in 1..Len(LowerCase) : LowerCase[i] = c
  \/ \E i \in 1..Len(DigitChars) : DigitChars[i] = c

PlainText(query) == SelectSeq(toLowerCase(query), IsPlainChar)

\* word stands in text between white space or the ends of text
IsWordOf(word, text) ==
  /\ Len(word) > 0
  /\ \A k \in 1..Len(word) : word[k] \notin WhiteSpace
  /\ \E i \in 1..(Len(text) - Len(word) + 1) :
       /\ SubSeq(text, i, i + Len(word) - 1) = word
       /\ i = 1 \/ text[i - 1] \in WhiteSpace
       /\ i + Len(word) - 1 = Len(text) \/ text[i + Len(word)] \in WhiteSpace

\* C14: every keyword extractKeywords emits is an allow-listed abbreviation,
\* a tier token, or a word of the lower-cased, punctuation-free query that
\* has at least 3 characters and is no stop word.
C14_KeywordsAdmissible ==
  Returned("extractKeywords") =>
    \A k \in 1..Len(Val(ret)) :
      \/ Val(ret)[k] \in AllowListed
      \/ IsTierToken(Val(ret)[k])
      \/ /\ Len(Val(ret)[k]) >= 3
         /\ Val(ret)[k] \notin stopwords
         /\ IsWordOf(Val(ret)[k], PlainText(call.query))

\* a query with a stop word and punctuation gave a word of the query, an
\* allow-listed abbreviation and a tier token
C14_Witness ==
  /\ Returned("extractKeywords")
  /\ \E w \in stopwords : IsWordOf(w, PlainText(call.query))
  /\ PlainText(call.query) # toLowerCase(call.query)
  /\ \E k \in 1..Len(Val(ret)) : Val(ret)[k] \in AllowListed
  /\ \E k \in 1..Len(Val(ret)) : IsTierToken(Val(ret)[k])
  /\ \E k \in 1..Len(Val(ret)) :
       Val(ret)[k] \notin AllowListed /\ ~IsTierToken(Val(ret)[k])

\* ------------------------------------------------------------------------
\* SpecMatches: findKeywordMatches applied to keyword lists of at most
\* MaxPhrases keywords, corpora of at most MaxCandidates documents and topK
\* up to MaxTopK
\* ------------------------------------------------------------------------
MatchDocKinds ==
  << [name |-> <<"C", "a", "n", "n", "o", "n">>, type |-> <<"d", "e", "f", "e", "n", "s", "e">>, content |-> <<"C", "a", "n", "n", "o", "n", " ", "D", "e", "f", "e", "n", "s", "e", " ", "t", "h", "9">>,
      embedding |-> <<1, 0>>],
     [name |-> <<>>, type |-> <<"T", "r", "o", "o", "p">>, content |-> <<"a", " ", "w", "a", "r", " ", "t", "r", "o", "o", "p">>,
      embedding |-> <<1, 0>>],
     [name |-> <<"W", "a", "r", "d", "e", "n">>, type |-> <<>>, content |-> <<"h", "e", "r", "o">>,
      embedding |-> <<1, 0>>] >>

InitMatches ==
  /\ call \in {[fn |-> "findKeywordMatches", keywords |-> kws, embeddings |-> c,
                topK |-> k] :
                 kws \in SeqsUpTo({<<"c", "a", "n", "n", "o", "n">>, <<"t", "r", "o", "o", "p">>, <<"T", "H", "9">>, <<"w", "a", "r">>}, MaxPhrases),
                 c \in {CorpusOf(MatchDocKinds, ks) :
                          ks \in SeqsUpTo(1..Len(MatchDocKinds), MaxCandidates)},
                 k \in 1..MaxTopK}
  /\ ret = Undefined
  /\ disk = <<>>
  /\ embeddings = <<>>
  /\ calls = <<>>

FindKeywordMatches ==
  /\ call.fn = "findKeywordMatches"
  /\ ret = Undefined
  /\ ret' = Some(findKeywordMatches(call.keywords, call.embeddings, call.topK))
  /\ UNCHANGED <<disk, embeddings, calls, call>>

SpecMatches == InitMatches /\ [][FindKeywordMatches]_vars

\* t occurs in s, letter case apart
Occurs(t, s) == includes(toLowerCase(s), toLowerCase(t))

\* the score of the claim: 1 for each keyword in the content, 2 for each
\* keyword in the name, 3 for each keyword equal to the type
ClaimedScore(doc, keywords) ==
  Cardinality({k \in 1..Len(keywords) : Occurs(keywords[k], doc.content)})
  + 2 * Cardinality({k \in 1..Len(keywords) :
                       /\ doc.metadata.name # <<>>
                       /\ Occurs(keywords[k], doc.metadata.name)})
  + 3 * Cardinality({k \in 1..Len(keywords) :
                       /\ doc.metadata.type # <<>>
                       /\ toLowerCase(doc.metadata.type) = toLowerCase(keywords[k])})

\* the corpus documents with their claimed scores
ClaimedScored(keywords, corpus) ==
  Array([ix \in DOMAIN corpus |->
           [corpus[ix] EXCEPT !.keywordScore = Some(ClaimedScore(corpus[ix], keywords))]])

\* C15: findKeywordMatches returns documents of the corpus with the claimed
\* score, none of score 0 and none twice, in descending score order; it
\* returns topK of the scoring documents, or all of them when they are
\* fewer, and no scoring document left out scores higher than one returned.
C15_KeywordScores ==
  Returned("findKeywordMatches") =>
    LET scored == ClaimedScored(call.keywords, call.embeddings)
        Scoring(doc) == KeywordScoreOf(doc) > 0
        scoring == SelectSeq(scored, Scoring)
    IN /\ Range(Val(ret)) \subseteq Range(scoring)
       /\ NoDuplicateKeys(Val(ret))
       /\ Len(Val(ret)) = Min(call.topK, Len(scoring))
       /\ \A i \in 1..(Len(Val(ret)) - 1) :
            KeywordScoreOf(Val(ret)[i]) >= KeywordScoreOf(Val(ret)[i + 1])
       /\ \A i \in 1..Len(scoring) : \A j \in 1..Len(Val(ret)) :
            scoring[i] \notin Range(Val(ret)) =>
              KeywordScoreOf(scoring[i]) <= KeywordScoreOf(Val(ret)[j])

\* a keyword scored in content, name and type of the documents, a document
\* scored 0, and more documents scored than topK admits
C15_Witness ==
  /\ Returned("findKeywordMatches")
  /\ Len(Val(ret)) = call.topK
  /\ \E i \in 1..Len(call.embeddings) :
       ClaimedScore(call.embeddings[i], call.keywords) = 0
  /\ \E i \in 1..Len(call.embeddings) :
       ClaimedScore(call.embeddings[i], call.keywords) > call.topK
  /\ \E i \in 1..Len(Val(ret)) : KeywordScoreOf(Val(ret)[i]) >= 4
  /\ \E i \in 1..(Len(Val(ret)) - 1) :
       KeywordScoreOf(Val(ret)[i]) > KeywordScoreOf(Val(ret)[i + 1])

\* ------------------------------------------------------------------------
\* SpecCosine: cosineSimilarity applied to pairs of vectors of equal length,
\* of 1 to 3 components, the zero vectors among them
\* ------------------------------------------------------------------------
InitCosine ==
  /\ LET CosineVectors ==
           << {<<0>>, <<2>>, <<-1>>},
              {<<0, 0>>, <<1, 0>>, <<0, -2>>, <<3, 4>>, <<-3, 4>>, <<4, 3>>, <<-4, -3>>},
              {<<0, 0, 0>>, <<1, 2, 2>>, <<2, -1, 2>>, <<0, 0, -3>>} >>
     IN call \in {[fn |-> "cosineSimilarity", vecA |-> pair[1], vecB |-> pair[2]] :
                    pair \in UNION {CosineVectors[n] \X CosineVectors[n] :
                                      n \in 1..Len(CosineVectors)}}
  /\ ret = Undefined
  /\ disk = <<>>
  /\ embeddings = <<>>
  /\ calls = <<>>

CosineSimilarity ==
  /\ call.fn = "cosineSimilarity"
  /\ ret = Undefined
  /\ ret' = Some(cosineSimilarity(call.vecA, call.vecB))
  /\ UNCHANGED <<disk, embeddings, calls, call>>

SpecCosine == InitCosine /\ [][CosineSimilarity]_vars

IsZeroVector(vec) == \A i \in 1..Len(vec) : vec[i] = 0

\* C16: cosineSimilarity of two vectors of equal length is 0 when either is
\* the zero vector, and in every case it is a number between -1 and 1, never
\* the outcome of a division by zero.
C16_ZeroVector ==
  Returned("cosineSimilarity") =>
    /\ Val(ret) \in (-SimScale)..SimScale
    /\ IsZeroVector(call.vecA) \/ IsZeroVector(call.vecB) => Val(ret) = 0

\* the three cases have been computed: vecA zero and vecB not, vecB zero and
\* vecA not, both zero
C16_Witness ==
  /\ Returned("cosineSimilarity")
  /\ Val(ret) = 0
  /\ IsZeroVector(call.vecB)
  /\ ~IsZeroVector(call.vecA)
  /\ Len(call.vecA) = 3

\* C17: every candidate handed to applyMMR carries a similarity, and it is
\* the cosine similarity of the embedding of the query of that call and the
\* embedding of the document, in every call made on the corpus array.
C17_CandidateSimilarity ==
  \A i \in 1..Len(calls) : \A j \in 1..Len(calls[i].candidates) :
    calls[i].candidates[j].similarity =
      Some(cosineSimilarity(calls[i].queryEmbedding,
                            calls[i].candidates[j].embedding))

\* the documents of corpus that the type boost is about
IsTypeMatchOf(doc, itemType) ==
  \/ doc.metadata.type = itemType
  \/ includes(toLowerCase(doc.content), itemType)

\* doc is among the 3 documents of the corpus most similar to the query
\* embedding that the type boost is about, whichever way ties are broken
InTopTypeMatches(doc, corpus, itemType, queryEmbedding) ==
  /\ IsTypeMatchOf(doc, itemType)
  /\ Cardinality({k \in 1..Len(corpus) :
                    /\ IsTypeMatchOf(corpus[k], itemType)
                    /\ cosineSimilarity(queryEmbedding, corpus[k].embedding)
                         >= cosineSimilarity(queryEmbedding, doc.embedding)})
       <= TypeBoostTopK

\* C18: in a call with intent upgrade_priority and an item type, each of the
\* 3 documents of the whole corpus most similar to the query among those of
\* that type or with the type in their text is in the candidate list, by id
\* and category.
C18_BoostFromWholeCorpus ==
  \A i \in 1..Len(calls) :
    LET queryAnalysis == calls[i].queryAnalysis IN
    (queryAnalysis.intent = "upgrade_priority"
       /\ TruthyString(queryAnalysis.params.itemType)) =>
      \A k \in 1..Len(disk) :
        InTopTypeMatches(disk[k], disk, Val(queryAnalysis.params.itemType),
                         calls[i].queryEmbedding)
          => \E j \in 1..Len(calls[i].candidates) :
               SameKey(calls[i].candidates[j], disk[k])

\* the document at position j of result is in the top half of the
\* similarities of result: fewer than half of the documents of result are
\* more similar to the query
InTopHalf(result, j) ==
  2 * Cardinality({k \in 1..Len(result) :
                     SimilarityOf(result[k]) > SimilarityOf(result[j])})
    < Len(result)

MentionsTier9(doc) == includes(toLowerCase(doc.content), <<"t", "h", "9">>)

\* C20: the query 'What should I upgrade first at TH9?' is analysed as
\* upgrade_priority with town hall level 9, and on a corpus with a document
\* of type defense that mentions TH9 the call returns a document of type
\* defense that is in the top half of the returned similarities.
C20_DefenseInTopHalf ==
  \A i \in 1..Len(calls) :
    calls[i].query = TierQueryTexts[1] =>
      /\ calls[i].queryAnalysis.intent = "upgrade_priority"
      /\ calls[i].queryAnalysis.params.townHallLevel = Some(9)
      /\ (\E k \in 1..Len(disk) :
            disk[k].metadata.type = <<"d", "e", "f", "e", "n", "s", "e">> /\ MentionsTier9(disk[k]))
           => \E j \in 1..Len(calls[i].result) :
                /\ calls[i].result[j].metadata.type = <<"d", "e", "f", "e", "n", "s", "e">>
                /\ InTopHalf(calls[i].result, j)

\* C19: the sources of the assembled context are one entry for each
\* returned document, in the order of retrieval, and the relevance of each
\* entry is round(similarity * 100), whatever the similarity is.
C19_Relevance ==
  \A i \in 1..Len(calls) :
    LET result == calls[i].result
        sources == calls[i].context.sources
    IN /\ Len(sources) = Len(result)
       /\ \A j \in 1..Len(result) :
            /\ sources[j].name = result[j].metadata.name
            /\ sources[j].category = result[j].metadata.category
            /\ sources[j].relevance =
                 Some(Round(SimilarityOf(result[j]) * PercentScale, SimScale))

\* ------------------------------------------------------------------------
\* Selection by maximal marginal relevance as stated: the penalty of a
\* document is the greatest of its cosines to the selected documents
\* ------------------------------------------------------------------------
GreatestCosine(doc, selected) ==
  LET sims == {cosineSimilarity(doc.embedding, selected[k].embedding) :
                 k \in 1..Len(selected)}
  IN CHOOSE m \in sims : \A x \in sims : x <= m

StatedBest(remaining, selected, lambda) ==
  LET Score(doc) == lambda * SimilarityOf(doc)
                      - (LambdaScale - lambda) * GreatestCosine(doc, selected)
  IN CHOOSE i \in 1..Len(remaining) :
       /\ \A k \in 1..Len(remaining) : Score(remaining[k]) <= Score(remaining[i])
       /\ \A k \in 1..(i - 1) : Score(remaining[k]) < Score(remaining[i])

RECURSIVE StatedLoop(_, _, _, _)
StatedLoop(selected, remaining, topK, lambda) ==
  IF Len(selected) < topK /\ Len(remaining) > 0
  THEN StatedLoop(Append(selected, remaining[StatedBest(remaining, selected, lambda)]),
                  RemoveAt(remaining, StatedBest(remaining, selected, lambda)),
                  topK, lambda)
  ELSE selected

\* C21: with more candidates than K, applyMMR returns the most similar
\* candidate followed by the candidates that in turn maximise
\* lambda * similarity - (1 - lambda) * (greatest cosine to a selected
\* document), the first such candidate on ties, until K are selected.
C21_MmrGreedy ==
  (Returned("applyMMR") /\ Len(call.candidates) > call.topK) =>
    Val(ret) = StatedLoop(<<TopBySimilarity(call.candidates, 1)[1]>>,
                          Tail(TopBySimilarity(call.candidates, Len(call.candidates))),
                          call.topK, call.lambda)

\* ------------------------------------------------------------------------
\* The parameters of analyzeQuery (SpecAnalyze)
\* ------------------------------------------------------------------------
\* t occurs in s at position i
OccursAt(s, t, i) ==
  i + Len(t) - 1 <= Len(s) /\ SubSeq(s, i, i + Len(t) - 1) = t

\* the unit of the troop list that the text names first: the unit whose
\* occurrence starts first, the longer unit when two start together
FirstNamed(lowerQuery) ==
  CHOOSE u \in 1..Len(troops) :
    \E i \in 1..Len(lowerQuery) :
      /\ OccursAt(lowerQuery, troops[u], i)
      /\ \A v \in 1..Len(troops) : \A j \in 1..i :
           OccursAt(lowerQuery, troops[v], j) =>
             j = i /\ Len(troops[v]) <= Len(troops[u])

\* C22: in an attack-strategy analysis of a query that names units of the
\* troop list, params.focusTroop is the unit the query text names first; a
\* compound unit named alone is the focusTroop.
C22_FocusTroopFirstInText ==
  (Returned("analyzeQuery") /\ Val(ret).intent = "attack_strategy"
     /\ \E u \in 1..Len(troops) : includes(toLowerCase(call.query), troops[u])) =>
    Val(ret).params.focusTroop = Some(troops[FirstNamed(toLowerCase(call.query))])

\* the intent of each intent-specific parameter and the keywords that set it
ParamIntent ==
  [itemType |-> "upgrade_priority", focus |-> "upgrade_priority",
   attackType |-> "attack_strategy", focusTroop |-> "attack_strategy",
   purpose |-> "attack_strategy", baseType |-> "base_design",
   resourceType |-> "resource_management", goal |-> "resource_management"]

ParamKeywords ==
  [itemType |-> {<<"t", "r", "o", "o", "p">>, <<"a", "r", "m", "y">>, <<"s", "p", "e", "l", "l">>, <<"h", "e", "r", "o">>, <<"d", "e", "f", "e", "n", "s", "e">>, <<"b", "u", "i", "l", "d", "i", "n", "g">>,
                 <<"s", "t", "r", "u", "c", "t", "u", "r", "e">>, <<"t", "o", "w", "e", "r">>, <<"c", "a", "n", "n", "o", "n">>, <<"m", "o", "r", "t", "a", "r">>},
   focus |-> {<<"o", "f", "f", "e", "n", "s", "e">>, <<"a", "t", "t", "a", "c", "k">>, <<"t", "r", "o", "o", "p">>, <<"s", "p", "e", "l", "l">>, <<"a", "r", "m", "y">>, <<"d", "e", "f", "e", "n", "s", "e">>,
              <<"d", "e", "f", "e", "n", "d">>, <<"w", "a", "l", "l">>, <<"p", "r", "o", "t", "e", "c", "t">>},
   attackType |-> {<<"a", "i", "r">>, <<"d", "r", "a", "g", "o", "n">>, <<"b", "a", "l", "l", "o", "o", "n">>, <<"h", "o", "u", "n", "d">>, <<"g", "r", "o", "u", "n", "d">>, <<"h", "o", "g">>,
                   <<"g", "i", "a", "n", "t">>, <<"g", "o", "l", "e", "m">>, <<"p", "e", "k", "k", "a">>, <<"b", "a", "r", "b", "a", "r", "i", "a", "n">>, <<"a", "r", "c", "h", "e", "r">>},
   focusTroop |-> Range(troops),
   purpose |-> {<<"f", "a", "r", "m">>, <<"l", "o", "o", "t">>, <<"w", "a", "r">>, <<"t", "r", "o", "p", "h", "y">>, <<"p", "u", "s", "h">>},
   baseType |-> {<<"f", "a", "r", "m">>, <<"l", "o", "o", "t">>, <<"w", "a", "r">>, <<"t", "r", "o", "p", "h", "y">>, <<"p", "u", "s", "h">>, <<"h", "y", "b", "r", "i", "d">>},
   resourceType |-> {<<"g", "o", "l", "d">>, <<"e", "l", "i", "x", "i", "r">>, <<"g", "e", "m">>},
   goal |-> {<<"s", "a", "v", "e">>, <<"s", "t", "o", "r", "e">>, <<"f", "a", "r", "m">>, <<"c", "o", "l", "l", "e", "c", "t">>, <<"g", "e", "t">>, <<"s", "p", "e", "n", "d">>, <<"u", "s", "e">>}]

\* C23: analyzeQuery returns an analysis for every query, and an
\* intent-specific parameter is present in params exactly when its intent
\* was chosen and one of its keywords occurs in the lower-cased query; it is
\* absent otherwise.
C23_ParamsOnlyOnSignal ==
  Returned("analyzeQuery") =>
    /\ Val(ret).intent \in Intents
    /\ \A param \in DOMAIN ParamIntent :
         Val(ret).params[param] # Undefined
           <=> /\ Val(ret).intent = ParamIntent[param]
               /\ \E keyword \in ParamKeywords[param] :
                    includes(toLowerCase(call.query), keyword)

\* an attack-strategy analysis of a query with the keyword of a parameter of
\* another intent and with no keyword of purpose: both parameters are absent
\* and the attack type is present
C23_Witness ==
  /\ Returned("analyzeQuery")
  /\ Val(ret).intent = "attack_strategy"
  /\ includes(toLowerCase(call.query), <<"g", "o", "l", "d">>)
  /\ Val(ret).params.resourceType = Undefined
  /\ Val(ret).params.purpose = Undefined
  /\ Val(ret).params.attackType # Undefined

\* ------------------------------------------------------------------------
\* The simulation path (strategy-simulator/api.js): the entity lookups of
\* retrieveArmyInfo and retrieveBaseInfo.  The dedup key
\* `${id}-${category}` is one-to-one on (id, category), no category
\* having a hyphen, and is written as the pair.
\* ------------------------------------------------------------------------
MaxItemDocs == 6

ItemDocKinds ==
  << [name |-> <<"C", "a", "n", "n", "o", "n">>, type |-> <<"d", "e", "f", "e", "n", "s", "e">>,
      content |-> <<"C", "a", "n", "n", "o", "n">>, embedding |-> <<1, 0>>],
     [name |-> <<"D", "r", "a", "g", "o", "n">>, type |-> <<"t", "r", "o", "o", "p">>,
      content |-> <<"D", "r", "a", "g", "o", "n">>, embedding |-> <<0, 1>>],
     [name |-> <<"G", "o", "l", "e", "m">>, type |-> <<"t", "r", "o", "o", "p">>,
      content |-> <<"G", "o", "l", "e", "m">>, embedding |-> <<3, 4>>] >>

\* the entities looked up and what the embedding service answers for the
\* query that names each
Items ==
  << [name |-> <<"c", "a", "n", "n", "o", "n">>, embedding |-> <<1, 0>>],
     [name |-> <<"d", "r", "a", "g", "o", "n">>, embedding |-> <<0, 1>>],
     [name |-> <<"g", "o", "l", "e", "m">>, embedding |-> <<3, 4>>],
     [name |-> <<"f", "r", "e", "e", "z", "e">>, embedding |-> <<4, 3>>],
     [name |-> <<"k", "i", "n", "g">>, embedding |-> <<0, 1>>],
     [name |-> <<"T", "o", "w", "n", " ", "H", "a", "l", "l", " ", "l", "e", "v", "e", "l", " ", "9">>, embedding |-> <<4, 3>>] >>

\* findSimilarDocuments of the simulator: the entries carry index,
\* similarity, content and metadata
findSimilarItems(queryEmbedding, corpus, topK) ==
  LET similarities ==
        Array([ix \in DOMAIN corpus |->
                 [index |-> ix - 1,
                  similarity |-> Some(cosineSimilarity(queryEmbedding,
                                                       corpus[ix].embedding)),
                  content |-> corpus[ix].content,
                  metadata |-> corpus[ix].metadata]])
  IN Slice(SortDescBy(similarities, Similarities(similarities)), topK)

\* item is an entry of Items; the item type is part of the query text only
findItemInfo(item, corpus) ==
  LET IsExact(doc) ==
        /\ doc.metadata.name # <<>>
        /\ toLowerCase(doc.metadata.name) = toLowerCase(item.name)
      exactMatches == SelectSeq(corpus, IsExact)
      exactMatchesWithSim ==
        Array([ix \in DOMAIN exactMatches |->
                 [exactMatches[ix] EXCEPT
                    !.similarity = Some(cosineSimilarity(item.embedding,
                                                         exactMatches[ix].embedding))]])
  IN IF Len(exactMatches) > 0
     THEN Slice(SortDescBy(exactMatchesWithSim, Similarities(exactMatchesWithSim)), 2)
     ELSE findSimilarItems(item.embedding, corpus, 2)

\* for (const [name, quantity] of Object.entries(o))
\*   if (quantity > 0) relevantDocs.push(...await findItemInfo(name, ...))
RECURSIVE ItemLookups(_, _)
ItemLookups(entries, corpus) ==
  IF Len(entries) = 0 THEN <<>>
  ELSE (IF Head(entries).quantity > 0
        THEN findItemInfo(Items[Head(entries).item], corpus)
        ELSE <<>>)
       \o ItemLookups(Tail(entries), corpus)

\* retrieveArmyInfo without the seen set
retrieveArmyInfoAll(armyComposition, corpus) ==
  Slice(ItemLookups(armyComposition.troops \o armyComposition.spells
                      \o armyComposition.heroes \o armyComposition.siegeMachine,
                    corpus),
        5)

\* an absent troops, spells or heroes object is an object without entries;
\* siegeMachine is no entry or the one entry of the siege machine
retrieveArmyInfo(armyComposition, corpus) ==
  Slice(PushNew(<<>>,
                ItemLookups(armyComposition.troops \o armyComposition.spells
                              \o armyComposition.heroes
                              \o armyComposition.siegeMachine,
                            corpus)),
        5)

\* townHallLevel is absent or 9
retrieveBaseInfo(baseLayout, corpus) ==
  Slice(PushNew(<<>>,
                ItemLookups(baseLayout.defenses, corpus)
                  \o (IF TruthyNumber(baseLayout.townHallLevel)
                      THEN findSimilarItems(Items[6].embedding, corpus, 2)
                      ELSE <<>>)),
        3)

InitSimulator ==
  LET Entry(i, q) == [item |-> i, quantity |-> q]
      entities == {<<>>, <<Entry(1, 2)>>, <<Entry(2, 1)>>, <<Entry(2, 0)>>,
                   <<Entry(1, 1), Entry(2, 3)>>, <<Entry(2, 1), Entry(1, 1)>>,
                   <<Entry(5, 1), Entry(1, 0)>>, <<Entry(3, 1), Entry(2, 1)>>}
      extras == {[spells |-> <<>>, heroes |-> <<>>, siegeMachine |-> <<>>],
                 [spells |-> <<Entry(4, 1)>>, heroes |-> <<>>, siegeMachine |-> <<>>],
                 [spells |-> <<>>, heroes |-> <<Entry(5, 0)>>,
                  siegeMachine |-> <<Entry(3, 1)>>],
                 [spells |-> <<Entry(4, 2)>>, heroes |-> <<Entry(5, 5)>>,
                  siegeMachine |-> <<Entry(3, 1)>>]}
  IN /\ disk \in {CorpusOf(ItemDocKinds, ks) :
                    ks \in SeqsUpTo(1..Len(ItemDocKinds), MaxItemDocs)}
     /\ embeddings = disk
     /\ calls = <<>>
     /\ call \in {[fn |-> "retrieveArmyInfo",
                   armyComposition |-> [troops |-> t, spells |-> x.spells,
                                        heroes |-> x.heroes,
                                        siegeMachine |-> x.siegeMachine]] :
                    t \in entities, x \in extras}
                 \cup {[fn |-> "retrieveBaseInfo",
                        baseLayout |-> [defenses |-> d, townHallLevel |-> th]] :
                         d \in entities, th \in {Undefined, Some(9)}}
     /\ ret = Undefined

RetrieveArmyInfo ==
  /\ call.fn = "retrieveArmyInfo"
  /\ ret = Undefined
  /\ ret' = Some(retrieveArmyInfo(call.armyComposition, embeddings))
  /\ UNCHANGED <<disk, embeddings, calls, call>>

RetrieveBaseInfo ==
  /\ call.fn = "retrieveBaseInfo"
  /\ ret = Undefined
  /\ ret' = Some(retrieveBaseInfo(call.baseLayout, embeddings))
  /\ UNCHANGED <<disk, embeddings, calls, call>>

SpecSimulator == InitSimulator /\ [][RetrieveArmyInfo \/ RetrieveBaseInfo]_vars

\* the positions in corpus of the at most 2 documents a lookup with the
\* query embedding e yields: of the documents named name when there are any
\* (name = <<>>: of all documents), the most similar first, the earlier
\* document first among equally similar ones
LookupPositions(name, e, corpus) ==
  LET named == {i \in 1..Len(corpus) :
                  toLowerCase(corpus[i].metadata.name) = toLowerCase(name)}
      pool == IF name # <<>> /\ named # {} THEN named ELSE 1..Len(corpus)
      Sim(i) == cosineSimilarity(e, corpus[i].embedding)
      Rank(i) == 1 + Cardinality({j \in pool : Sim(j) > Sim(i)})
                   + Cardinality({j \in pool : j < i /\ Sim(j) = Sim(i)})
  IN [r \in 1..Min(2, Cardinality(pool)) |-> CHOOSE i \in pool : Rank(i) = r]

\* the lookups of the entities with a positive quantity, in entity order
RECURSIVE EntityPositions(_, _)
EntityPositions(entries, corpus) ==
  IF Len(entries) = 0 THEN <<>>
  ELSE (IF Head(entries).quantity > 0
        THEN LookupPositions(Items[Head(entries).item].name,
                             Items[Head(entries).item].embedding, corpus)
        ELSE <<>>)
       \o EntityPositions(Tail(entries), corpus)

\* positions without the repetitions of an earlier position
RECURSIVE FirstOccurrences(_)
FirstOccurrences(positions) ==
  IF Len(positions) = 0 THEN <<>>
  ELSE LET front == FirstOccurrences(SubSeq(positions, 1, Len(positions) - 1))
           last == positions[Len(positions)]
       IN IF \E k \in 1..Len(front) : front[k] = last THEN front
          ELSE Append(front, last)

\* the documents of result are those of corpus at positions, in that order
AtPositions(result, corpus, positions) ==
  /\ Len(result) = Len(positions)
  /\ \A k \in 1..Len(result) : SameKey(result[k], corpus[positions[k]])

\* C24: retrieveArmyInfo returns the first 5, and retrieveBaseInfo the first
\* 3, of the documents that the lookups of its entities yield in entity
\* order, a document that an earlier lookup yielded left out; each lookup
\* yields the 2 most similar documents with the name of the entity, or the 2
\* most similar documents of the corpus when none has the name.  No two
\* returned documents have the same id and category.
C24_EntityLookups ==
  /\ Returned("retrieveArmyInfo") =>
       /\ Len(Val(ret)) <= 5
       /\ NoDuplicateKeys(Val(ret))
       /\ AtPositions(Val(ret), embeddings,
            Slice(FirstOccurrences(
                    EntityPositions(call.armyComposition.troops
                                      \o call.armyComposition.spells
                                      \o call.armyComposition.heroes
                                      \o call.armyComposition.siegeMachine,
                                    embeddings)),
                  5))
  /\ Returned("retrieveBaseInfo") =>
       /\ Len(Val(ret)) <= 3
       /\ NoDuplicateKeys(Val(ret))
       /\ AtPositions(Val(ret), embeddings,
            Slice(FirstOccurrences(
                    EntityPositions(call.baseLayout.defenses, embeddings)
                      \o (IF call.baseLayout.townHallLevel # Undefined
                          THEN LookupPositions(<<>>, Items[6].embedding, embeddings)
                          ELSE <<>>)),
                  3))

\* an army whose lookups yield more than 5 different documents and one
\* document twice, one lookup being by name and one by similarity alone
C24_Witness ==
  /\ Returned("retrieveArmyInfo")
  /\ Len(Val(ret)) = 5
  /\ Len(call.armyComposition.spells) > 0
  /\ \E i \in 1..Len(embeddings) : toLowerCase(embeddings[i].metadata.name) = <<"d", "r", "a", "g", "o", "n">>
  /\ LET positions == EntityPositions(call.armyComposition.troops
                                        \o call.armyComposition.spells
                                        \o call.armyComposition.heroes
                                        \o call.armyComposition.siegeMachine,
                                      embeddings)
     IN /\ Len(FirstOccurrences(positions)) > 5
        /\ Len(FirstOccurrences(positions)) < Len(positions)

\* ------------------------------------------------------------------------
\* SpecServer: one server process serving at most two requests, each
\* a POST /advisor (strategy-advisor/api.js, processQuery) or a call of
\* simulateBattle.  A request runs from one await to the next in one step;
\* the steps of the requests interleave.  disk is the corpus the files hold,
\* embeddings the array the latest loadData returned, call[p] the position
\* and the locals of request p, calls the log of what the process asked of
\* the file system, of the embedding service and of the generation service
\* and of what it answered, in the order in which that happened.
\* ------------------------------------------------------------------------
MaxServerDocs == 1

Requests == {1, 2}

\* what fs.readJson can fail with
ReadErrors == {"ENOENT: no such file or directory"}

\* the names the embedding requests of retrieveArmyInfo and then of
\* retrieveBaseInfo are about, in the order of the requests
LookupsOf(battle) ==
  LET Positive(entry) == entry.quantity > 0
      entries == SelectSeq(battle.armyComposition.troops
                             \o battle.armyComposition.spells
                             \o battle.armyComposition.heroes
                             \o battle.armyComposition.siegeMachine
                             \o battle.baseLayout.defenses,
                           Positive)
  IN Array([ix \in DOMAIN entries |-> Items[entries[ix].item].name])
       \o (IF TruthyNumber(battle.baseLayout.townHallLevel)
           THEN <<Items[6].name>> ELSE <<>>)

InitServer ==
  /\ disk \in {CorpusOf(DocKinds, ks) :
                 ks \in SeqsUpTo(1..Len(DocKinds), MaxServerDocs)}
  /\ embeddings = <<>>
  /\ calls = <<>>
  /\ call = [p \in Requests |-> [pc |-> "idle"]]
  /\ ret = Undefined

\* request p settles: res.status(status).json(body) of the route, or the
\* promise of simulateBattle fulfilled or rejected
Respond(p, status, body) ==
  /\ call' = [call EXCEPT ![p] = [pc |-> "done", fn |-> call[p].fn,
                                  status |-> status, body |-> body]]
  /\ calls' = Append(calls, [request |-> p, event |-> "response",
                             about |-> status])

\* request p asks for about and waits at pc with locals
Await(p, pc, event, about, locals) ==
  /\ call' = [call EXCEPT ![p] = [pc |-> pc, fn |-> call[p].fn,
                                  locals |-> locals]]
  /\ calls' = Append(calls, [request |-> p, event |-> event, about |-> about])

\* an await of request p throws error: processQuery logs it and throws it
\* again and the route answers 500; simulateBattle logs it and throws it
\* again
Throw(p, error) ==
  Respond(p, IF call[p].fn = "processQuery" THEN "500" ELSE "rejected",
          [message |-> error])

\* POST /advisor with body {query}: the validation of the route, then
\* processQuery up to the first readJson of loadData.  The requests are
\* numbered in the order in which they arrive.
PostAdvisor(p, query) ==
  /\ call[p].pc = "idle"
  /\ \A q \in 1..(p - 1) : call[q].pc # "idle"
  /\ IF query = <<>>
     THEN /\ call' = [call EXCEPT ![p] =
                        [pc |-> "done", fn |-> "route", status |-> "400",
                         body |-> [message |-> "Please provide a strategy question in the \"query\" field"]]]
          /\ calls' = Append(calls, [request |-> p, event |-> "response",
                                     about |-> "400"])
     ELSE IF Len(query) < 5
     THEN /\ call' = [call EXCEPT ![p] =
                        [pc |-> "done", fn |-> "route", status |-> "400",
                         body |-> [message |-> "Please provide a more detailed question"]]]
          /\ calls' = Append(calls, [request |-> p, event |-> "response",
                                     about |-> "400"])
     ELSE /\ call' = [call EXCEPT ![p] =
                        [pc |-> "readAllData", fn |-> "processQuery",
                         locals |-> [query |-> query]]]
          /\ calls' = Append(calls, [request |-> p, event |-> "read",
                                     about |-> "all_data.json"])
  /\ UNCHANGED <<disk, embeddings, ret>>

\* simulateBattle(armyComposition, baseLayout) up to the first readJson of
\* loadData
SimulateBattle(p, battle) ==
  /\ call[p].pc = "idle"
  /\ \A q \in 1..(p - 1) : call[q].pc # "idle"
  /\ call' = [call EXCEPT ![p] =
                [pc |-> "readAllData", fn |-> "simulateBattle",
                 locals |-> [battle |-> battle]]]
  /\ calls' = Append(calls, [request |-> p, event |-> "read",
                             about |-> "all_data.json"])
  /\ UNCHANGED <<disk, embeddings, ret>>

\* loadData: all_data.json is read, embeddings.json is asked for
AllDataRead(p) ==
  /\ call[p].pc = "readAllData"
  /\ Await(p, "readEmbeddings", "read", "embeddings.json", call[p].locals)
  /\ UNCHANGED <<disk, embeddings, ret>>

\* a readJson of loadData throws: loadData logs the error and throws it
\* again
ReadFailsRetry(p, error) ==
  /\ call[p].pc \in {"readAllData", "readEmbeddings"}
  /\ Len(SelectSeq(calls, LAMBDA e : e.request = p)) < 3
  /\ Await(p, "readAllData", "read", "all_data.json", call[p].locals)
  /\ UNCHANGED <<disk, embeddings, ret>>

ReadFails(p, error) ==
  /\ call[p].pc \in {"readAllData", "readEmbeddings"}
  /\ Throw(p, error)
  /\ UNCHANGED <<disk, embeddings, ret>>

\* the lookups of retrieveArmyInfo and retrieveBaseInfo are through:
\* the documents, the prompt made of them and the generation request.  The
\* prompt is written as the arguments of generateSimulationPrompt.
SimulationPrompt(p, battle, corpus) ==
  Await(p, "awaitGeneration", "generation",
        [armyDocs |-> retrieveArmyInfo(battle.armyComposition, corpus),
         baseDocs |-> retrieveBaseInfo(battle.baseLayout, corpus)],
        [battle |-> battle, embeddings |-> corpus])

\* loadData returns a fresh array.  processQuery: analyzeQuery, then
\* retrieveContext up to its await of the query embedding.  simulateBattle:
\* retrieveArmyInfo up to the await of the first lookup, if there is one.
EmbeddingsRead(p) ==
  /\ call[p].pc = "readEmbeddings"
  /\ embeddings' = disk
  /\ IF call[p].fn = "processQuery"
     THEN LET s == Suspended(call[p].locals.query,
                             analyzeQuery(call[p].locals.query), disk, FALSE)
          IN Await(p, "awaitEmbedding", "embedding", s.query,
                   [query |-> s.query, queryAnalysis |-> s.queryAnalysis,
                    refs |-> s.refs, embeddings |-> disk])
     ELSE IF Len(LookupsOf(call[p].locals.battle)) = 0
     THEN SimulationPrompt(p, call[p].locals.battle, disk)
     ELSE Await(p, "awaitEmbedding", "embedding",
                Head(LookupsOf(call[p].locals.battle)),
                [battle |-> call[p].locals.battle, embeddings |-> disk,
                 pending |-> LookupsOf(call[p].locals.battle)])
  /\ UNCHANGED <<disk, ret>>

\* processQuery: retrieveContext returns, generateAdvisorPrompt
AdvisorPrompt(p, locals, r) ==
  Await(p, "awaitGeneration", "generation",
        generateAdvisorPrompt(locals.query, locals.queryAnalysis, r.result),
        [query |-> locals.query, queryAnalysis |-> locals.queryAnalysis,
            embeddings |-> r.embeddings, contextDocs |-> r.result])

\* the embedding service answers request p
EmbeddingReply(p) ==
  /\ call[p].pc = "awaitEmbedding"
  /\ IF call[p].fn = "processQuery"
     THEN AdvisorPrompt(p, call[p].locals,
                        RetrieveFrom(call[p].locals.query,
                                     call[p].locals.queryAnalysis,
                                     call[p].locals.embeddings,
                                     generateQueryEmbedding(call[p].locals.query),
                                     call[p].locals.refs))
     ELSE IF Len(call[p].locals.pending) = 1
     THEN SimulationPrompt(p, call[p].locals.battle, call[p].locals.embeddings)
     ELSE Await(p, "awaitEmbedding", "embedding",
                call[p].locals.pending[2],
                [call[p].locals EXCEPT !.pending = Tail(@)])
  /\ UNCHANGED <<disk, embeddings, ret>>

\* the embedding service fails: neither retrieveContext nor findItemInfo
\* has a try around the await
EmbeddingError(p, error) ==
  /\ call[p].pc = "awaitEmbedding"
  /\ Throw(p, error)
  /\ UNCHANGED <<disk, embeddings, ret>>

\* the generation service answers: processQuery returns what it assembled
\* and the route answers 200; simulateBattle returns the parsed answer
GenerationReply(p) ==
  /\ call[p].pc = "awaitGeneration"
  /\ IF call[p].fn = "processQuery"
     THEN Respond(p, "200", Assemble(call[p].locals.query,
                                     call[p].locals.queryAnalysis,
                                     call[p].locals.contextDocs))
     ELSE Respond(p, "fulfilled", [message |-> "results"])
  /\ UNCHANGED <<disk, embeddings, ret>>

GenerationError(p, error) ==
  /\ call[p].pc = "awaitGeneration"
  /\ Throw(p, error)
  /\ UNCHANGED <<disk, embeddings, ret>>

\* req.body.query is absent, too short, or a question; the battles are one
\* with three lookups and one with none
SpecServer ==
  InitServer
  /\ [][\E p \in Requests :
          \/ \E query \in {<<>>, <<"T", "H", "9">>, QueryTexts[1]} : PostAdvisor(p, query)
          \/ \E battle \in
                {[armyComposition |->
                    [troops |-> << [item |-> 2, quantity |-> q] >>,
                     spells |-> <<>>, heroes |-> <<>>, siegeMachine |-> <<>>],
                  baseLayout |->
                    [defenses |-> IF q > 0 THEN << [item |-> 1, quantity |-> q] >>
                                  ELSE <<>>,
                     townHallLevel |-> IF q > 0 THEN Some(9) ELSE Undefined]] :
                   q \in {0, 1}} : SimulateBattle(p, battle)
          \/ AllDataRead(p)
          \/ \E error \in ReadErrors : ReadFails(p, error)
          \/ EmbeddingsRead(p)
          \/ EmbeddingReply(p)
          \/ \E error \in EmbeddingErrors : EmbeddingError(p, error)
          \/ GenerationReply(p)
          \/ \E error \in EmbeddingErrors : GenerationError(p, error)]_vars

\* what the log holds of request p, in order
EventsOf(p) ==
  SelectSeq(calls, LAMBDA e : e.request = p)

\* C25: in processQuery the steps run in the order corpus load, query
\* analysis, query embedding and retrieval, prompt assembly, text
\* generation.  The log of a request holds its requests in that order and
\* nothing else before its response; the embedding request is made with the
\* analysis at hand and the generation request with the retrieved
\* documents at hand and the prompt made of them; a request whose corpus
\* failed to load has asked for each file at most once, has called neither
\* service and has answered 500 with the error right after the failed read.
C25_StepsInOrder ==
  \A p \in Requests :
    call[p].pc # "idle" /\ call[p].fn = "processQuery" =>
      LET events == EventsOf(p)
          asked == IF call[p].pc = "done" THEN Len(events) - 1 ELSE Len(events)
      IN /\ asked \in 1..4
         /\ \A k \in 1..Min(asked, 2) :
              /\ events[k].event = "read"
              /\ events[k].about = (IF k = 1 THEN "all_data.json"
                                    ELSE "embeddings.json")
         /\ asked >= 3 => events[3].event = "embedding"
         /\ asked >= 4 => events[4].event = "generation"
         /\ call[p].pc = "done" =>
              /\ events[Len(events)].event = "response"
              /\ events[Len(events)].about = call[p].status
         /\ call[p].pc = "awaitEmbedding" =>
              /\ asked = 3
              /\ events[3].about = call[p].locals.query
              /\ call[p].locals.queryAnalysis = analyzeQuery(call[p].locals.query)
         /\ call[p].pc = "awaitGeneration" =>
              /\ asked = 4
              /\ events[4].about =
                   generateAdvisorPrompt(call[p].locals.query,
                                         call[p].locals.queryAnalysis,
                                         call[p].locals.contextDocs)
         /\ call[p].pc = "done" /\ call[p].status = "500" =>
              (call[p].body.message \in ReadErrors <=> asked \in 1..2)
         /\ call[p].pc = "done" /\ asked \in 1..2 => call[p].status = "500"

\* a request whose second file failed to load has answered 500 while the
\* other request was answered 200
C25_Witness ==
  \E p \in Requests : \E q \in Requests :
    /\ call[p].pc = "done" /\ call[p].fn = "processQuery"
    /\ call[p].status = "500" /\ call[p].body.message \in ReadErrors
    /\ Len(EventsOf(p)) = 3
    /\ call[q].pc = "done" /\ call[q].fn = "processQuery"
    /\ call[q].status = "200"

\* the reads of file the process has asked for
ReadsOf(file) ==
  SelectSeq(calls, LAMBDA e : e.event = "read" /\ e.about = file)

\* C26: the corpus is loaded once per process.  Over the requests served
\* so far no corpus file has been asked for more than once, and once a
\* request has a corpus at hand each file has been asked for exactly once.
C26_LoadedOnce ==
  /\ Len(ReadsOf("all_data.json")) <= 1
  /\ Len(ReadsOf("embeddings.json")) <= 1
  /\ (\E p \in Requests : call[p].pc \in {"awaitEmbedding", "awaitGeneration"})
       => Len(ReadsOf("embeddings.json")) = 1

\* content mentions tier thLevel: one of the forms 'thT', 'th T',
\* 'town hall T', 'townhall T' stands in it with the whole number T, no
\* digit following
StatedMention(content, thLevel) ==
  \E form \in {<<"t", "h">>, <<"t", "h", " ">>, <<"t", "o", "w", "n", " ", "h", "a", "l", "l", " ">>, <<"t", "o", "w", "n", "h", "a", "l", "l", " ">>} :
    \E i \in 1..Len(content) :
      /\ OccursAt(content, form \o numToString(thLevel), i)
      /\ LET after == i + Len(form) + Len(numToString(thLevel))
         IN after <= Len(content) => ~IsDigit(content[after])

\* C27: for a tier T the exact set holds exactly the documents whose text
\* mentions tier T in one of the four forms, and every document of the
\* nearby set mentions tier T - 1 or tier T + 1; a document that mentions
\* only another tier is in neither.
C27_TierMentions ==
  Returned("filterByTownHallLevel") /\ call.thLevel # Undefined =>
    /\ ExactSet(Val(call.thLevel), embeddings)
         = {i \in 1..Len(embeddings) :
              StatedMention(toLowerCase(embeddings[i].content), Val(call.thLevel))}
    /\ \A i \in NearbySet(Val(call.thLevel), embeddings) :
         \/ StatedMention(toLowerCase(embeddings[i].content), Val(call.thLevel) - 1)
         \/ StatedMention(toLowerCase(embeddings[i].content), Val(call.thLevel) + 1)

\* C29: the keyword list returned by extractKeywords holds no keyword
\* twice, whatever the query, a query that writes the tier as one word such
\* as 'TH9' included.
C29_KeywordsDistinct ==
  Returned("extractKeywords") => NoRepeats(Val(ret))

\* ------------------------------------------------------------------------
\* SpecProvider: the LLMConfigManager singleton (config/llm-config.js) under
\* at most MaxOps operations: switchProvider, generateQueryEmbedding and
\* runLLMInference.  call is the manager and the environment it was
\* constructed in, calls the operations made so far: a switch with the
\* provider before and after it and whether it threw, a request with the
\* backends it was sent to.  A request picks its backend before its first
\* await, so a request is one step.
\* ------------------------------------------------------------------------
MaxOps == 3

\* Object.values(LLM_PROVIDERS)
LLM_PROVIDERS == {"ollama", "gemini"}

\* switchProvider without the test of the provider
switchProviderUnchecked(manager, provider) ==
  [manager |-> [manager EXCEPT !.currentProvider = provider], thrown |-> FALSE]

\* switchProvider(provider): the manager after the call and whether the
\* call threw
switchProvider(manager, provider) ==
  IF provider \notin LLM_PROVIDERS
  THEN [manager |-> manager, thrown |-> TRUE]
  ELSE [manager |-> [manager EXCEPT !.currentProvider = provider], thrown |-> FALSE]

\* the if / else-if of generateQueryEmbedding and of runLLMInference: the
\* backends the request is sent to
Dispatch(manager) ==
  IF manager.currentProvider = "ollama" THEN {"ollama"}
  ELSE IF manager.currentProvider = "gemini" THEN {"gemini"}
  ELSE {}

\* constructor: process.env.LLM_PROVIDER || LLM_PROVIDERS.OLLAMA, where
\* process.env.LLM_PROVIDER is unset, empty, or a name
InitProvider ==
  /\ call \in {[env |-> env,
                 currentProvider |-> IF env # Undefined /\ Val(env) # ""
                                     THEN Val(env) ELSE "ollama"] :
                 env \in {Undefined, Some(""), Some("ollama"), Some("gemini"),
                          Some("openai")}}
  /\ calls = <<>>
  /\ disk = <<>>
  /\ embeddings = <<>>
  /\ ret = Undefined

SwitchProvider(provider) ==
  /\ Len(calls) < MaxOps
  /\ call' = switchProvider(call, provider).manager
  /\ calls' = Append(calls, [fn |-> "switchProvider", provider |-> provider,
                             before |-> call.currentProvider,
                             after |-> call'.currentProvider,
                             thrown |-> switchProvider(call, provider).thrown])
  /\ UNCHANGED <<disk, embeddings, ret>>

GenerateQueryEmbedding ==
  /\ Len(calls) < MaxOps
  /\ calls' = Append(calls, [fn |-> "generateQueryEmbedding",
                             backends |-> Dispatch(call)])
  /\ UNCHANGED <<disk, embeddings, call, ret>>

RunLLMInference ==
  /\ Len(calls) < MaxOps
  /\ calls' = Append(calls, [fn |-> "runLLMInference",
                             backends |-> Dispatch(call)])
  /\ UNCHANGED <<disk, embeddings, call, ret>>

SpecProvider ==
  InitProvider
  /\ [][\/ \E provider \in {"ollama", "gemini", "openai", "Gemini", ""} :
             SwitchProvider(provider)
        \/ GenerateQueryEmbedding
        \/ RunLLMInference]_vars

\* C28: switchProvider(p) with p outside {'ollama', 'gemini'} throws and
\* leaves currentProvider as it was, and with a valid p sets currentProvider
\* to p; when the manager was constructed with a valid provider,
\* currentProvider is 'ollama' or 'gemini' after any sequence of calls and
\* every embedding or generation request went to exactly one backend.
C28_ProviderValid ==
  /\ \A k \in 1..Len(calls) :
       calls[k].fn = "switchProvider" =>
         IF calls[k].provider \in {"ollama", "gemini"}
         THEN ~calls[k].thrown /\ calls[k].after = calls[k].provider
         ELSE calls[k].thrown /\ calls[k].after = calls[k].before
  /\ (call.env = Undefined \/ Val(call.env) \in {"", "ollama", "gemini"}) =>
       /\ call.currentProvider \in {"ollama", "gemini"}
       /\ \A k \in 1..Len(calls) :
            calls[k].fn # "switchProvider" => Cardinality(calls[k].backends) = 1

\* a manager constructed with 'ollama' has refused a switch, made a switch
\* and then sent a request to gemini
C28_Witness ==
  /\ call.env = Some("ollama")
  /\ \E i, j, k \in 1..Len(calls) :
       /\ i < k /\ j < k
       /\ calls[i].fn = "switchProvider" /\ calls[i].thrown
       /\ calls[j].fn = "switchProvider" /\ ~calls[j].thrown
       /\ calls[k].fn # "switchProvider" /\ calls[k].backends = {"gemini"}

\* ------------------------------------------------------------------------
\* SpecChat: the advisor chat view (frontend, SimulatorView.vue) under at
\* most MaxQuestions questions.  call is the reactive state of the view:
\* messages, userInput, isLoading, loadingMessage, currentIntent and
\* currentTownHall.  calls holds the calls of sendMessage that wait for the
\* server, in the order in which they started, each with its query and the
\* request it awaits.  Every message carries the number of the sendMessage
\* call that pushed it (0 for the welcome messages).
\* ------------------------------------------------------------------------
MaxQuestions == 2

\* the welcome messages, then the reactive state
InitChat ==
  /\ call = [messages |->
               LET WELCOME_MESSAGES ==
                     << <<"W", "e", "l", "c", "o", "m", "e", " ", "t", "o", " ", "t", "h", "e", " ", "C", "o", "C", " ", "S", "t", "r", "a", "t", "e", "g", "y", " ", "A", "d", "v", "i", "s", "o", "r", "!">>,
                        <<"I", " ", "c", "a", "n", " ", "h", "e", "l", "p", " ", "y", "o", "u", " ", "w", "i", "t", "h", ":">>, <<"U", "p", "g", "r", "a", "d", "e", " ", "P", "r", "i", "o", "r", "i", "t", "i", "e", "s">>,
                        <<"A", "t", "t", "a", "c", "k", " ", "S", "t", "r", "a", "t", "e", "g", "i", "e", "s">>, <<"B", "a", "s", "e", " ", "D", "e", "s", "i", "g", "n", "s">>,
                        <<"R", "e", "s", "o", "u", "r", "c", "e", " ", "M", "a", "n", "a", "g", "e", "m", "e", "n", "t">>,
                        <<"A", "s", "k", " ", "m", "e", " ", "a", "n", "y", "t", "h", "i", "n", "g", " ", "a", "b", "o", "u", "t", " ", "C", "l", "a", "s", "h", " ", "o", "f", " ", "C", "l", "a", "n", "s", "!">> >>
               IN Array([ix \in DOMAIN WELCOME_MESSAGES |->
                           [type |-> "system", text |-> WELCOME_MESSAGES[ix],
                            request |-> 0]]),
             userInput |-> <<>>, isLoading |-> FALSE,
             loadingMessage |-> <<"A", "n", "a", "l", "y", "z", "i", "n", "g", " ", "q", "u", "e", "r", "y", ".", ".", ".">>,
             currentIntent |-> Undefined, currentTownHall |-> Undefined,
             sent |-> 0]
  /\ calls = <<>>
  /\ disk = <<>>
  /\ embeddings = <<>>
  /\ ret = Undefined

\* v-model="userInput": the textarea is never disabled
Type(text) ==
  /\ call.userInput # text
  /\ call' = [call EXCEPT !.userInput = text]
  /\ UNCHANGED <<disk, embeddings, calls, ret>>

\* sendMessage up to its first await: the request to /api/advisor/analyze
\* is out
sendMessage ==
  LET query == trim(call.userInput)
  IN IF query = <<>> THEN UNCHANGED <<call, calls>>
     ELSE /\ call.sent < MaxQuestions
          /\ call' = [call EXCEPT
                        !.messages = Append(@, [type |-> "user", text |-> query,
                                                request |-> call.sent + 1]),
                        !.userInput = <<>>,
                        !.isLoading = TRUE,
                        !.loadingMessage = <<"D", "e", "t", "e", "c", "t", "i", "n", "g", " ", "q", "u", "e", "r", "y", " ", "i", "n", "t", "e", "n", "t", ".", ".", ".">>,
                        !.sent = @ + 1]
          /\ calls' = Append(calls, [request |-> call.sent + 1, query |-> query,
                                     awaits |-> "analyze"])

\* @click="sendMessage" of the button, :disabled="!userInput || isLoading"
ClickSend ==
  /\ call.userInput # <<>>
  /\ ~call.isLoading
  /\ sendMessage
  /\ UNCHANGED <<disk, embeddings, ret>>

\* @keyup.enter.prevent="sendMessage" of the textarea
PressEnter ==
  /\ sendMessage
  /\ UNCHANGED <<disk, embeddings, ret>>

\* the answer of /api/advisor/analyze arrives at the k-th waiting call: the
\* keywords message, the intent and the tier, and the request to
\* /api/advisor is out
AnalyzeReply(k) ==
  /\ k \in DOMAIN calls
  /\ calls[k].awaits = "analyze"
  /\ LET RECURSIVE Join(_)
         Join(keywords) ==
           IF Len(keywords) = 0 THEN <<>>
           ELSE IF Len(keywords) = 1 THEN keywords[1]
           ELSE keywords[1] \o <<",", " ">> \o Join(Tail(keywords))
         analysis == analyzeQuery(calls[k].query)
     IN call' = [call EXCEPT
                   !.messages = Append(@, [type |-> "keywords",
                                           text |-> <<"K", "e", "y", "w", "o", "r", "d", "s", ":", " ">>
                                             \o Join(extractKeywords(calls[k].query)),
                                           request |-> calls[k].request]),
                   !.currentIntent = Some(analysis.intent),
                   !.currentTownHall = analysis.params.townHallLevel,
                   !.loadingMessage = <<"G", "e", "n", "e", "r", "a", "t", "i", "n", "g", " ", "s", "t", "r", "a", "t", "e", "g", "y", " ", "a", "d", "v", "i", "c", "e", ".", ".", ".">>]
  /\ calls' = [calls EXCEPT ![k].awaits = "advisor"]
  /\ UNCHANGED <<disk, embeddings, ret>>

\* the answer of /api/advisor arrives at the k-th waiting call: the advisor
\* message with the text of the answer, then the finally block
AdvisorReply(k, response) ==
  /\ k \in DOMAIN calls
  /\ calls[k].awaits = "advisor"
  /\ call' = [call EXCEPT
                !.messages = Append(@, [type |-> "advisor", text |-> response,
                                        request |-> calls[k].request]),
                !.isLoading = FALSE]
  /\ calls' = RemoveAt(calls, k)
  /\ UNCHANGED <<disk, embeddings, ret>>

\* the request the k-th waiting call awaits fails: the catch block, then
\* the finally block
RequestFails(k, message) ==
  /\ k \in DOMAIN calls
  /\ call' = [call EXCEPT
                !.messages = Append(@, [type |-> "system",
                                        text |-> <<"S", "o", "r", "r", "y", ",", " ", "I", " ", "c", "o", "u", "l", "d", "n", "'", "t", " ", "p", "r", "o", "c", "e", "s", "s", " ", "y", "o", "u", "r", " ", "r", "e", "q", "u", "e", "s", "t", ".", " ">>
                                                   \o message,
                                        request |-> calls[k].request]),
                !.isLoading = FALSE]
  /\ calls' = RemoveAt(calls, k)
  /\ UNCHANGED <<disk, embeddings, ret>>

\* the user types nothing, a blank or a question; a failed request shows
\* error.response?.data?.message || error.message
SpecChat ==
  InitChat
  /\ [][\/ \E text \in {<<>>, <<" ">>, <<"w", "a", "r", " ", "b", "a", "s", "e">>, <<"T", "H", "9", " ", "a", "r", "m", "y", " ">>} : Type(text)
        \/ ClickSend
        \/ PressEnter
        \/ \E k \in 1..MaxQuestions :
             \/ AnalyzeReply(k)
             \/ AdvisorReply(k, <<"U", "p", "g", "r", "a", "d", "e", " ", "t", "h", "e", " ", "c", "a", "n", "n", "o", "n", " ", "f", "i", "r", "s", "t", ".">>)
             \/ \E message \in {<<"P", "l", "e", "a", "s", "e", " ", "p", "r", "o", "v", "i", "d", "e", " ", "a", " ", "m", "o", "r", "e", " ", "d", "e", "t", "a", "i", "l", "e", "d", " ", "q", "u", "e", "s", "t", "i", "o", "n">>,
                                 <<"N", "e", "t", "w", "o", "r", "k", " ", "E", "r", "r", "o", "r">>} : RequestFails(k, message)]_vars

\* C30: at most one question is in flight at a time.  At most one call of
\* sendMessage waits for the server, isLoading is true exactly while one
\* does, and every advisor message stands directly after the keywords
\* message of its own question.
C30_OneInFlight ==
  /\ Len(calls) <= 1
  /\ call.isLoading <=> Len(calls) > 0
  /\ \A k \in 1..Len(call.messages) :
       call.messages[k].type = "advisor" =>
         /\ call.messages[k - 1].type = "keywords"
         /\ call.messages[k - 1].request = call.messages[k].request
====
